---- MODULE Spec2Model ----
(***************************************************************************)
(* JoyBind: gamepad polling loop (controller.py), analog stick processor   *)
(* and listener start/stop paths (gui/app.py), and the step interpreter    *)
(* (actions.py).                                                           *)
(*                                                                         *)
(* Python floats are modelled as exact rationals [n, d] in lowest terms    *)
(* (d > 0); rounding error of IEEE arithmetic is not modelled.             *)
(***************************************************************************)
EXTENDS Integers, Sequences, FiniteSets, TLC

VARIABLES
    \* -- harness of the pure function _apply_deadzone -----------------------
    dz_args,        \* <<value, other value, dz>>
    dz_res,         \* <<>> before the call, <<f(value), f(other)>> after it
    \* -- actions.py: one call of execute_sequence --------------------------
    steps,          \* the argument: a list of step dicts
    seq_pc,         \* index of the step the for loop executes next
    seq_state,      \* "idle" | "run" (in the for loop) | "done" (returned)
    saved_pos,      \* local saved_pos: NoPos (None) or <<x, y>>
    cursor,         \* the OS cursor position
    ops,            \* the injection calls made so far, with their outcomes
    aborted,        \* the call returned from the FailSafeException handler
    \* -- the device layer (pygame.joystick) --------------------------------
    dev_count,      \* pygame.joystick.get_count()
    num_buttons,    \* get_numbuttons() of a device
    n_axes,         \* get_numaxes() of a device
    \* -- controller.py: ControllerListener ---------------------------------
    running,        \* self._running
    thread,         \* self._thread: "None" or "ref" (a Thread object)
    joystick,       \* self._joystick: "None", or a handle "init" / "quit"
    joystick_index, \* self._joystick_index
    loop_pc,        \* the polling thread: "none" (no thread object),
                    \* "while", "body", "after" (alive), "dead"
    prev_states,    \* _poll_loop's local dict
    axes_consumer,  \* self.on_axes_update: "None" or the callable registered
    orphan,         \* a polling thread stop() stopped waiting for: its pc,
                    \* its local prev_states, and the number of times it
                    \* has passed the loop condition since
    \* -- gui/app.py: App ---------------------------------------------------
    analog,         \* self.cfg["analog"]
    binds,          \* self.cfg["binds"]: button key -> bind
    dlg,            \* _open_edit_dialog: its locals key, bind and dlg.result
    held_keys,      \* self._held_keys
    acc_x, acc_y, acc_sv, acc_sh,   \* the four accumulators
    is_listening,   \* self._is_listening
    ui_pc,          \* the UI thread: "idle", or the call blocked in join
    \* -- observation -------------------------------------------------------
    ev,             \* what the last step did: its inputs, outputs, result
    hist,           \* samples of button 0 read by the current polling loop
    last_sample,    \* the device's button states at the previous cycle
    invocations,    \* on_button_press calls per button, current loop
    rises,          \* 0 -> 1 transitions per button, current loop
    units,          \* the "Action-BTN" threads alive, in order of their start
    os_down,        \* keys whose last injected event is keyDown
    net,            \* per accumulator: deltas added minus units issued
                    \* since it was last set to zero
    prev_cycle      \* "none" or the mode of the last cycle: "on" / "off"

dzVars == <<dz_args, dz_res>>
seqVars == <<steps, seq_pc, seq_state, saved_pos, cursor, ops, aborted>>
devVars == <<dev_count, num_buttons, n_axes>>
ctlVars == <<running, thread, joystick, joystick_index, loop_pc, prev_states>>
sideVars == <<axes_consumer, orphan>>
accVars == <<acc_x, acc_y, acc_sv, acc_sh>>
appVars == <<analog, binds, dlg, held_keys, acc_x, acc_y, acc_sv, acc_sh, is_listening>>
btnObs == <<hist, last_sample, invocations, rises, units>>
axesObs == <<os_down, net, prev_cycle>>
vars == <<dz_args, dz_res, steps, seq_pc, seq_state, saved_pos, cursor, ops,
          aborted, dev_count, num_buttons, n_axes, running, thread, joystick,
          joystick_index, loop_pc, prev_states, axes_consumer, orphan,
          analog, binds, dlg, held_keys,
          acc_x,
          acc_y, acc_sv, acc_sh, is_listening, ui_pc, ev, hist, last_sample,
          invocations, rises, units, os_down, net, prev_cycle>>

\* None, for a position.
NoPos == <<>>

\* The parts of the state a specification does not exercise stay as follows.
DzIdle == dz_args = <<>> /\ dz_res = <<>>

SeqIdle ==
    /\ steps = <<>>
    /\ seq_pc = 1
    /\ seq_state = "idle"
    /\ saved_pos = NoPos
    /\ cursor = <<100, 100>>
    /\ ops = <<>>
    /\ aborted = FALSE

(***************************************************************************)
(* Exact rational arithmetic standing for Python float arithmetic.         *)
(***************************************************************************)
Abs(i) == IF i < 0 THEN -i ELSE i

RECURSIVE GCD(_, _)
GCD(a, b) == IF b = 0 THEN a ELSE GCD(b, a % b)

Rat(n, d) ==
    LET g == GCD(Abs(n), Abs(d))
        s == IF d < 0 THEN -1 ELSE 1
    IN  [n |-> s * (n \div g), d |-> s * (d \div g)]

Zero == [n |-> 0, d |-> 1]
One == [n |-> 1, d |-> 1]
RInt(i) == [n |-> i, d |-> 1]

RNeg(a) == [n |-> -a.n, d |-> a.d]
RAbs(a) == [n |-> Abs(a.n), d |-> a.d]
RAdd(a, b) ==
    LET g == GCD(a.d, b.d)
    IN  Rat(a.n * (b.d \div g) + b.n * (a.d \div g), (a.d \div g) * b.d)
RSub(a, b) == RAdd(a, RNeg(b))
RMul(a, b) ==
    LET g1 == GCD(Abs(a.n), b.d)
        g2 == GCD(Abs(b.n), a.d)
        h1 == IF g1 = 0 THEN 1 ELSE g1
        h2 == IF g2 = 0 THEN 1 ELSE g2
    IN  Rat((a.n \div h1) * (b.n \div h2), (a.d \div h2) * (b.d \div h1))
RDiv(a, b) == RMul(a, IF b.n < 0 THEN [n |-> -b.d, d |-> -b.n] ELSE [n |-> b.d, d |-> b.n])
RLt(a, b) == a.n * b.d < b.n * a.d
RLe(a, b) == a.n * b.d <= b.n * a.d
RMax(a, b) == IF RLt(a, b) THEN b ELSE a

\* Python int(x) on a float: truncation toward zero.
Trunc(a) == IF a.n >= 0 THEN a.n \div a.d ELSE -((-a.n) \div a.d)

\* An empty dict keyed by button index.
EmptyDict == [b \in {} |-> 0]

ZeroNet == [x |-> Zero, y |-> Zero, sv |-> Zero, sh |-> Zero]

\* ControllerListener.__init__ and App.__init__ (the analog state), before
\* any device or configuration is chosen.
ConstructedWith(consumer) ==
    /\ running = FALSE
    /\ axes_consumer = consumer
    /\ orphan = [pc |-> "none", prev_states |-> EmptyDict, entered |-> 0]
    /\ thread = "None"
    /\ joystick = "None"
    /\ joystick_index = 0
    /\ loop_pc = "none"
    /\ prev_states = EmptyDict
    /\ held_keys = {}
    /\ acc_x = Zero /\ acc_y = Zero /\ acc_sv = Zero /\ acc_sh = Zero
    /\ is_listening = FALSE
    /\ ui_pc = "idle"
    /\ ev = [op |-> "init"]
    /\ hist = <<>>
    /\ last_sample = EmptyDict
    /\ invocations = EmptyDict
    /\ rises = EmptyDict
    /\ units = <<>>
    /\ dlg = EmptyDict
    /\ os_down = {}
    /\ net = ZeroNet
    /\ prev_cycle = "none"

\* The App registers both callbacks (gui/app.py, ControllerListener(...)).
Constructed == ConstructedWith("_on_axes_update")

ListenerIdle ==
    /\ Constructed
    /\ dev_count = 0
    /\ num_buttons = 0
    /\ n_axes = 0
    /\ analog = [enabled |-> FALSE, sticks |-> <<>>]
    /\ binds = EmptyDict

listenerVars ==
    <<dev_count, num_buttons, n_axes, running, thread, joystick,
      joystick_index, loop_pc, prev_states, axes_consumer, orphan,
          analog, binds, dlg, held_keys,
          acc_x,
      acc_y, acc_sv, acc_sh, is_listening, ui_pc, ev, hist, last_sample,
      invocations, units,
      rises, os_down, net, prev_cycle>>

(***************************************************************************)
(* gui/app.py: _apply_deadzone                                             *)
(***************************************************************************)
\* The literal 1e-6 of max(1.0 - dz, 1e-6).
DeadzoneEpsDen == 1000000
DeadzoneEps == [n |-> 1, d |-> DeadzoneEpsDen]

\* Mutant: the dead zone is cut out but the remaining travel is not rescaled.
DeadzoneNoRescale(value, dz) ==
    IF RLt(RAbs(value), dz) THEN Zero ELSE value

apply_deadzone(value, dz) ==
    IF RLt(RAbs(value), dz)
    THEN Zero
    ELSE LET sign == IF value.n > 0 THEN One ELSE RNeg(One)
         IN  RMul(sign, RDiv(RSub(RAbs(value), dz),
                             RMax(RSub(One, dz), DeadzoneEps)))

(***************************************************************************)
(* actions.py: execute_sequence.  Every pyautogui call either succeeds,    *)
(* raises FailSafeException ("failsafe") or raises another exception       *)
(* ("error"); position() makes no fail-safe check.  A call that raises     *)
(* has had no effect on the cursor.                                        *)
(***************************************************************************)
\* dict.get(key, default)
Get(d, k, default) == IF k \in DOMAIN d THEN d[k] ELSE default

Outcomes == {"ok", "failsafe", "error"}
PositionOutcomes == {"ok", "error"}

\* The interpreter state threaded through one step: the local saved_pos, the
\* cursor, the calls made, and how control leaves the step ("next": on to
\* the next step, "abort": return from the FailSafeException handler).
St(saved, cur, log, flow) ==
    [saved |-> saved, cursor |-> cur, ops |-> log, flow |-> flow]

\* Mutant: FailSafeException is logged like any other exception.
FlowContinue(out) == "next"

\* Mutant: any exception ends the sequence.
FlowAbortAll(out) == IF out = "ok" THEN "next" ELSE "abort"

\* Mutant: only FailSafeException is caught; another exception leaves the
\* entry point.
FlowUncaught(out) ==
    IF out = "failsafe" THEN "abort" ELSE IF out = "ok" THEN "next" ELSE "raise"

\* except FailSafeException: return; except Exception: print, next step.
Flow(out) == IF out = "failsafe" THEN "abort" ELSE "next"

\* pyautogui.moveTo(x, y, duration=0)
MoveTo(st, pos, out) ==
    St(st.saved,
       IF out = "ok" THEN pos ELSE st.cursor,
       Append(st.ops, [op |-> "moveTo", to |-> pos, out |-> out]),
       Flow(out))

\* Any other injection call: click, doubleClick, scroll, press.
Inject(st, call, out) ==
    St(st.saved, st.cursor,
       Append(st.ops, call @@ [at |-> st.cursor, out |-> out]), Flow(out))

\* pyautogui.position()
Position(st, out) ==
    St(st.saved, st.cursor,
       Append(st.ops, [op |-> "position", ret |-> st.cursor, out |-> out]),
       "next")

\* Mutant: save_mouse keeps a position that is already saved.
SaveMouseOnce(st) ==
    { IF o = "ok" /\ st.saved = NoPos
      THEN [Position(st, o) EXCEPT !.saved = st.cursor]
      ELSE Position(st, o) : o \in PositionOutcomes }

\* save_mouse: saved_pos = pyautogui.position()
SaveMouse(st) ==
    { IF o = "ok"
      THEN [Position(st, o) EXCEPT !.saved = st.cursor]
      ELSE Position(st, o) : o \in PositionOutcomes }

\* Mutant: restore_mouse moves back but keeps the position saved.
RestoreMouseKeeps(st) ==
    IF st.saved # NoPos
    THEN { MoveTo(st, st.saved, o) : o \in Outcomes }
    ELSE { st }

\* restore_mouse: if saved_pos is not None: moveTo(saved_pos); saved_pos = None
RestoreMouse(st) ==
    IF st.saved # NoPos
    THEN { IF o = "ok"
           THEN [MoveTo(st, st.saved, o) EXCEPT !.saved = NoPos]
           ELSE MoveTo(st, st.saved, o) : o \in Outcomes }
    ELSE { st }

\* Mutant: every move_mouse with save_restore captures.
CapturesAlways(step, saved) == Get(step, "save_restore", FALSE)

\* if step.get("save_restore") and saved_pos is None
Captures(step, saved) ==
    Get(step, "save_restore", FALSE) /\ saved = NoPos

\* move_mouse: capture (when asked and nothing is saved), then moveTo(x, y)
MoveMouse(st, step) ==
    LET target == <<step.x, step.y>>
    IN  IF Captures(step, st.saved)
        THEN { MoveTo([Position(st, "ok") EXCEPT !.saved = st.cursor],
                      target, o) : o \in Outcomes }
             \cup { Position(st, "error") }
        ELSE { MoveTo(st, target, o) : o \in Outcomes }

\* The body of the for loop for one step.
StepResults(st, step) ==
    LET action == Get(step, "action", "")
        call(c) == { Inject(st, c, o) : o \in Outcomes }
    IN  CASE action = "save_mouse" -> SaveMouse(st)
          [] action = "restore_mouse" -> RestoreMouse(st)
          [] action = "move_mouse" -> MoveMouse(st, step)
          [] action = "click_left" -> call([op |-> "click", button |-> "left"])
          [] action = "click_right" -> call([op |-> "click", button |-> "right"])
          [] action = "click_middle" -> call([op |-> "click", button |-> "middle"])
          [] action = "double_click" -> call([op |-> "doubleClick"])
          [] action = "scroll_up" ->
                call([op |-> "scroll", clicks |-> Get(step, "clicks", 3)])
          [] action = "scroll_down" ->
                call([op |-> "scroll", clicks |-> -Get(step, "clicks", 3)])
          [] action = "key" -> call([op |-> "press", key |-> step.key])
          [] action = "delay" ->
                { St(st.saved, st.cursor,
                     Append(st.ops, [op |-> "sleep", ms |-> Get(step, "ms", 100)]),
                     "next") }
          [] OTHER -> { st }

\* Mutant: the end of the sequence restores nothing.
NoAutoRestore(st) == { st }

\* After the loop: if saved_pos is not None: try moveTo(saved_pos) except Exception
AutoRestore(st) ==
    IF st.saved # NoPos
    THEN { [MoveTo(st, st.saved, o) EXCEPT !.flow = "next"] : o \in Outcomes }
    ELSE { st }

\* Calls that raised so far.
Faults(log) == Cardinality({ i \in DOMAIN log : Get(log[i], "out", "ok") # "ok" })

\* -- bounds of the interpreter's inputs -----------------------------------
MaxSteps == 3
MaxFaults == 1

StartPositions == { <<100, 100>>, <<10, 10>> }
StepAlphabet ==
    { [action |-> "save_mouse"],
      [action |-> "restore_mouse"],
      [action |-> "move_mouse", x |-> 500, y |-> 300, save_restore |-> TRUE],
      [action |-> "move_mouse", x |-> 10, y |-> 10],
      [action |-> "click_left"],
      [action |-> "scroll_down"],
      [action |-> "wave"] }

StepLists == UNION { [1..n -> StepAlphabet] : n \in 0..MaxSteps }

\* execute_sequence(steps) is entered: saved_pos = None
InitSeq ==
    /\ steps \in StepLists
    /\ seq_pc = 1
    /\ seq_state = "run"
    /\ saved_pos = NoPos
    /\ cursor \in StartPositions
    /\ ops = <<>>
    /\ aborted = FALSE
    /\ DzIdle
    /\ ListenerIdle

Here == St(saved_pos, cursor, ops, "next")

\* One iteration of the for loop.
ExecStep ==
    /\ seq_state = "run"
    /\ seq_pc <= Len(steps)
    /\ \E r \in StepResults(Here, steps[seq_pc]) :
          /\ Faults(r.ops) <= MaxFaults
          /\ saved_pos' = r.saved
          /\ cursor' = r.cursor
          /\ ops' = r.ops
          /\ IF r.flow = "abort"
             THEN seq_state' = "done" /\ aborted' = TRUE /\ seq_pc' = seq_pc
             ELSE IF r.flow = "raise"
             THEN seq_state' = "raised" /\ aborted' = FALSE /\ seq_pc' = seq_pc
             ELSE seq_state' = "run" /\ aborted' = FALSE /\ seq_pc' = seq_pc + 1
    /\ UNCHANGED steps
    /\ UNCHANGED <<dzVars, listenerVars>>

\* The loop is exhausted: the auto-restore block, then return.
Finish ==
    /\ seq_state = "run"
    /\ seq_pc = Len(steps) + 1
    /\ \E r \in AutoRestore(Here) :
          /\ Faults(r.ops) <= MaxFaults
          /\ saved_pos' = r.saved
          /\ cursor' = r.cursor
          /\ ops' = r.ops
    /\ seq_state' = "done"
    /\ UNCHANGED <<steps, seq_pc, aborted>>
    /\ UNCHANGED <<dzVars, listenerVars>>

NextSeq == ExecStep \/ Finish

SpecSeq == InitSeq /\ [][NextSeq]_vars

\* The steps of the two worked examples.
MoveSaveRestore == [action |-> "move_mouse", x |-> 500, y |-> 300, save_restore |-> TRUE]
MovePlain == [action |-> "move_mouse", x |-> 10, y |-> 10]
ClickLeft == [action |-> "click_left"]
SaveStep == [action |-> "save_mouse"]
RestoreStep == [action |-> "restore_mouse"]

Call_position(ret) == [op |-> "position", ret |-> ret, out |-> "ok"]
Call_moveTo(pos) == [op |-> "moveTo", to |-> pos, out |-> "ok"]
Call_click(pos) == [op |-> "click", button |-> "left", at |-> pos, out |-> "ok"]

\* C2: when execute_sequence returns without a fail-safe abort and a saved
\* position is pending, its last injection call is moveTo(saved position),
\* which leaves the cursor there; [move_mouse(500,300,save_restore), click_left]
\* with working primitives clicks at (500,300) and ends where it started.
C2_AutoRestore ==
    /\ (seq_state = "done" /\ ~aborted /\ saved_pos # NoPos) =>
          /\ Len(ops) > 0
          /\ ops[Len(ops)].op = "moveTo"
          /\ ops[Len(ops)].to = saved_pos
          /\ ops[Len(ops)].out = "ok" => cursor = saved_pos
    /\ (seq_state = "done" /\ steps = <<MoveSaveRestore, ClickLeft>>
            /\ Faults(ops) = 0) =>
          \E start \in StartPositions :
             /\ ops = << Call_position(start), Call_moveTo(<<500, 300>>),
                         Call_click(<<500, 300>>), Call_moveTo(start) >>
             /\ cursor = start

\* C2 witness: the worked example from (100,100) has run to its end.
C2_Witness ==
    /\ seq_state = "done"
    /\ steps = <<MoveSaveRestore, ClickLeft>>
    /\ Len(ops) = 4
    /\ ops[3] = Call_click(<<500, 300>>)
    /\ ops[4] = Call_moveTo(<<100, 100>>)
    /\ cursor = <<100, 100>>

RestoreStepTaken ==
    /\ seq_state = "run"
    /\ seq_pc <= Len(steps)
    /\ Get(steps[seq_pc], "action", "") = "restore_mouse"

C8_Step ==
    RestoreStepTaken =>
        IF saved_pos = NoPos
        THEN ops' = ops /\ cursor' = cursor /\ saved_pos' = NoPos
        ELSE \E o \in Outcomes :
                /\ ops' = Append(ops, [op |-> "moveTo", to |-> saved_pos, out |-> o])
                /\ o = "ok" => (cursor' = saved_pos /\ saved_pos' = NoPos)

C8_Example ==
    (seq_state = "done" /\ steps = <<SaveStep, MovePlain, RestoreStep>>
        /\ Faults(ops) = 0) =>
       \E start \in StartPositions :
          /\ ops = << Call_position(start), Call_moveTo(<<10, 10>>),
                      Call_moveTo(start) >>
          /\ cursor = start
          /\ saved_pos = NoPos

\* C8: a restore_mouse step with a saved position issues moveTo(saved) and,
\* the move done, clears the saved position; with nothing saved it makes no
\* injection call; [save_mouse, move_mouse(10,10), restore_mouse] ends with
\* nothing saved and no further move after the restore.
C8_RestoreConsumes == [][C8_Step]_vars /\ []C8_Example

\* C8 witness: a second restore_mouse ran with nothing saved, and made no call.
C8_Witness ==
    /\ seq_state = "done"
    /\ steps = <<SaveStep, RestoreStep, RestoreStep>>
    /\ ops = << Call_position(<<100, 100>>), Call_moveTo(<<100, 100>>) >>
    /\ saved_pos = NoPos

\* The outcome of a logged call.
OutOf(call) == Get(call, "out", "ok")

\* The calls of the log that raised FailSafeException.
FailsafeAt(log) == { i \in DOMAIN log : OutOf(log[i]) = "failsafe" }

\* C22: a FailSafeException raised by a step ends execute_sequence at once:
\* the raising call is the last call of the execution (no later step makes a
\* call and no auto-restore move follows, saved position pending or not),
\* the steps after the raising one are never reached, and nothing follows a
\* fail-safe call inside the loop in any execution.
C22_FailsafeAbort ==
    /\ [](aborted =>
            /\ seq_state = "done"
            /\ seq_pc <= Len(steps)
            /\ FailsafeAt(ops) = {Len(ops)})
    /\ [](\A i \in FailsafeAt(ops) : i = Len(ops))
    /\ [][seq_state = "run" /\ seq_pc <= Len(steps) /\ Len(ops') > Len(ops)
             /\ OutOf(ops'[Len(ops')]) = "failsafe" =>
                aborted' /\ seq_state' = "done" /\ seq_pc' = seq_pc]_vars
    /\ [][aborted => UNCHANGED <<ops, cursor, saved_pos, seq_pc>>]_vars

C22_Witness ==
    /\ aborted
    /\ seq_state = "done"
    /\ steps = <<MoveSaveRestore, ClickLeft, MovePlain>>
    /\ seq_pc = 2
    /\ saved_pos = <<100, 100>>
    /\ cursor = <<500, 300>>
    /\ Len(ops) = 3

\* The step at seq_pc is one the interpreter does not know.
UnknownStep ==
    Get(steps[seq_pc], "action", "") \notin
       {"save_mouse", "restore_mouse", "move_mouse", "click_left", "click_right",
        "click_middle", "double_click", "scroll_up", "scroll_down", "key", "delay"}

\* C23: a step with an unknown action makes no call and changes nothing but
\* the position in the list; a step whose call raises an exception other
\* than FailSafeException is followed by the next step of the list and
\* keeps a saved position as it was; the list is walked one step at a time,
\* so an execution that ends without a fail-safe abort has gone through
\* every step once, in order; and its end still moves the cursor back to a
\* pending saved position.
C23_StepIsolation ==
    /\ [][seq_state = "run" /\ seq_pc <= Len(steps) /\ UnknownStep =>
             /\ seq_pc' = seq_pc + 1
             /\ seq_state' = "run"
             /\ UNCHANGED <<ops, cursor, saved_pos>>]_vars
    /\ [][seq_state = "run" /\ seq_pc <= Len(steps) /\ Len(ops') > Len(ops)
             /\ OutOf(ops'[Len(ops')]) = "error" =>
                /\ seq_pc' = seq_pc + 1
                /\ seq_state' = "run"
                /\ ~aborted'
                /\ saved_pos # NoPos => saved_pos' = saved_pos]_vars
    /\ [][seq_pc' \in {seq_pc, seq_pc + 1}]_vars
    /\ [](seq_state = "done" /\ ~aborted =>
            /\ seq_pc = Len(steps) + 1
            /\ saved_pos # NoPos =>
                  /\ ops # <<>>
                  /\ ops[Len(ops)].op = "moveTo"
                  /\ ops[Len(ops)].to = saved_pos)

C23_Witness ==
    /\ seq_state = "done"
    /\ ~aborted
    /\ steps = <<MoveSaveRestore, [action |-> "wave"], ClickLeft>>
    /\ Len(ops) = 4
    /\ ops[2].op = "moveTo" /\ ops[2].out = "error"
    /\ ops[3].op = "click" /\ ops[3].at = <<100, 100>>
    /\ ops[4] = Call_moveTo(<<100, 100>>)
    /\ saved_pos = <<100, 100>>

\* The step at seq_pc is about to run and has the given action.
Running(action) ==
    /\ seq_state = "run"
    /\ seq_pc <= Len(steps)
    /\ Get(steps[seq_pc], "action", "") = action

\* The calls of the log that are pyautogui.position().
PositionCalls(log) == { i \in DOMAIN log : log[i].op = "position" }

\* The list has no step of the given action from index i on.
NoneFrom(action, i) ==
    \A j \in i..Len(steps) : Get(steps[j], "action", "") # action

\* C24: a move_mouse step with save_restore true and nothing saved first
\* reads the cursor and saves what it read (the position before its own
\* move), then moves; with a position already saved it reads nothing and
\* keeps it; without save_restore it never changes the saved position.
\* Hence a fault-free execution of a list with move_mouse(save_restore)
\* steps and no save_mouse or restore_mouse reads the cursor exactly once,
\* directly before the first such move, and ends with the cursor there.
C24_CaptureOnce ==
    /\ [][Running("move_mouse") /\ Get(steps[seq_pc], "save_restore", FALSE)
             /\ saved_pos = NoPos =>
                /\ Len(ops') > Len(ops)
                /\ ops'[Len(ops) + 1].op = "position"
                /\ ops'[Len(ops) + 1].ret = cursor
                /\ IF ops'[Len(ops) + 1].out = "ok"
                   THEN /\ saved_pos' = cursor
                        /\ Len(ops') = Len(ops) + 2
                        /\ ops'[Len(ops) + 2].op = "moveTo"
                   ELSE saved_pos' = NoPos /\ Len(ops') = Len(ops) + 1]_vars
    /\ [][Running("move_mouse") /\ saved_pos # NoPos =>
                /\ saved_pos' = saved_pos
                /\ Len(ops') = Len(ops) + 1
                /\ ops'[Len(ops')].op = "moveTo"]_vars
    /\ [][Running("move_mouse") /\ ~Get(steps[seq_pc], "save_restore", FALSE) =>
                saved_pos' = saved_pos]_vars
    /\ [](/\ seq_state = "done"
          /\ Faults(ops) = 0
          /\ NoneFrom("save_mouse", 1)
          /\ NoneFrom("restore_mouse", 1)
          /\ \E i \in DOMAIN steps : steps[i] = MoveSaveRestore
          => \E k \in DOMAIN ops :
                /\ PositionCalls(ops) = {k}
                /\ ops[k + 1] = Call_moveTo(<<500, 300>>)
                /\ \A j \in 1..(k - 1) : ops[j].op # "moveTo" \/ ops[j].to # <<500, 300>>
                /\ ops[Len(ops)] = Call_moveTo(ops[k].ret)
                /\ cursor = ops[k].ret
                /\ saved_pos = ops[k].ret)

C24_Witness ==
    /\ seq_state = "done"
    /\ steps = <<MoveSaveRestore, MovePlain, MoveSaveRestore>>
    /\ Faults(ops) = 0
    /\ Len(ops) = 5
    /\ ops[1].op = "position" /\ ops[1].ret = <<100, 100>>
    /\ ops[4] = Call_moveTo(<<500, 300>>)
    /\ ops[5] = Call_moveTo(<<100, 100>>)
    /\ cursor = <<100, 100>>

\* Steps that only invoke a primitive or wait.
PrimitiveSteps ==
    { [action |-> "click_left"], [action |-> "click_right"],
      [action |-> "click_middle"], [action |-> "double_click"],
      [action |-> "scroll_up"], [action |-> "scroll_down", clicks |-> 5],
      [action |-> "key", key |-> "enter"], [action |-> "delay", ms |-> 50],
      [action |-> "delay"] }

\* C25: save_mouse reads the cursor and, when the read returns, saves it
\* whatever was saved before; click, double-click, scroll, key and delay
\* steps leave the saved position as it was, from any state of an execution;
\* hence a fault-free execution with no restore_mouse after its last
\* save_mouse ends with the cursor where that save_mouse found it.
C25_SaveMouseOverwrites ==
    /\ [][Running("save_mouse") =>
                /\ Len(ops') = Len(ops) + 1
                /\ ops'[Len(ops')].op = "position"
                /\ ops'[Len(ops')].ret = cursor
                /\ saved_pos' = IF ops'[Len(ops')].out = "ok"
                                THEN cursor ELSE saved_pos]_vars
    /\ [][Running("click_left") \/ Running("scroll_down") =>
                saved_pos' = saved_pos]_vars
    /\ [](\A step \in PrimitiveSteps :
             \A r \in StepResults(Here, step) : r.saved = saved_pos)
    /\ [](/\ seq_state = "done"
          /\ Faults(ops) = 0
          /\ \E i \in DOMAIN steps :
                steps[i] = SaveStep /\ NoneFrom("save_mouse", i + 1)
                                    /\ NoneFrom("restore_mouse", i + 1)
          => \E k \in PositionCalls(ops) :
                /\ \A j \in PositionCalls(ops) : j <= k
                /\ ops[Len(ops)] = Call_moveTo(ops[k].ret)
                /\ cursor = ops[k].ret)

C25_Witness ==
    /\ seq_state = "done"
    /\ steps = <<MoveSaveRestore, SaveStep, MovePlain>>
    /\ Faults(ops) = 0
    /\ Len(ops) = 5
    /\ ops[1].op = "position" /\ ops[1].ret = <<100, 100>>
    /\ ops[3].op = "position" /\ ops[3].ret = <<500, 300>>
    /\ ops[5] = Call_moveTo(<<500, 300>>)
    /\ cursor = <<500, 300>>

(***************************************************************************)
(* gui/app.py: App._on_axes_update, the analog stick processor.            *)
(* actions.key_combo_down / key_combo_up / move_mouse_relative /           *)
(* scroll_v_relative / scroll_h_relative are injection calls that return   *)
(* without raising.                                                        *)
(***************************************************************************)
\* The literal 60.0 of delta = scaled * sens / 60.0.
AxesRate == 60
\* The default sensitivity, binding.get("sensitivity", 600).
DefaultSensitivity == 600

NoneBinding == [type |-> "none"]
ContinuousTypes == {"mouse_x", "mouse_y", "scroll_v", "scroll_h"}
NoDelta == [mouse_x |-> Zero, mouse_y |-> Zero, scroll_v |-> Zero, scroll_h |-> Zero]

\* Python list indexing: a negative index counts from the end.
AxisAt(axis_values, idx) ==
    IF idx >= 0 THEN axis_values[idx + 1]
    ELSE axis_values[Len(axis_values) + idx + 1]

\* if ax_idx >= len(axis_values) or ay_idx >= len(axis_values): continue
StickSkipped(ax_idx, ay_idx, n) == ax_idx >= n \/ ay_idx >= n

\* axis_values[idx] raises IndexError below -len(axis_values).
IndexRaises(ax_idx, ay_idx, n) == ax_idx < -n \/ ay_idx < -n

\* sens = max(0.1, float(binding.get("sensitivity", 600)))
Sensitivity(binding) ==
    RMax(Rat(1, 10), RInt(Get(binding, "sensitivity", DefaultSensitivity)))

\* Mutant: the negative-direction slot is looked at first.
AxisRoleNegativeFirst(scaled, neg_b, pos_b) ==
    LET role(b) == [type |-> b.type,
                    delta |-> RDiv(RMul(scaled, Sensitivity(b)), RInt(AxesRate))]
    IN  IF Get(neg_b, "type", "none") \in ContinuousTypes THEN role(neg_b)
        ELSE IF Get(pos_b, "type", "none") \in ContinuousTypes THEN role(pos_b)
        ELSE [type |-> "none", delta |-> Zero]

\* for binding in (pos_b, neg_b): the first continuous one takes the axis.
AxisRole(scaled, neg_b, pos_b) ==
    LET role(b) == [type |-> b.type,
                    delta |-> RDiv(RMul(scaled, Sensitivity(b)), RInt(AxesRate))]
    IN  IF Get(pos_b, "type", "none") \in ContinuousTypes THEN role(pos_b)
        ELSE IF Get(neg_b, "type", "none") \in ContinuousTypes THEN role(neg_b)
        ELSE [type |-> "none", delta |-> Zero]

AddRole(d, role) ==
    IF role.type = "none" THEN d
    ELSE [d EXCEPT ![role.type] = RAdd(@, role.delta)]

\* Mutant: a key is held from a value of zero on.
StickKeysAtRest(stick, sx, sy) ==
    LET slot(direction, axis_val) ==
            LET b == Get(stick, direction, NoneBinding)
            IN  IF Get(b, "type", "") = "key" /\ Get(b, "key", "") # ""
                   /\ RLe(Zero, axis_val)
                THEN {b.key} ELSE {}
    IN  slot("up", RNeg(sy)) \cup slot("down", sy)
        \cup slot("left", RNeg(sx)) \cup slot("right", sx)

\* The keys a stick holds: a slot bound to a key, deflected its way.
StickKeys(stick, sx, sy) ==
    LET slot(direction, axis_val) ==
            LET b == Get(stick, direction, NoneBinding)
            IN  IF Get(b, "type", "") = "key" /\ Get(b, "key", "") # ""
                   /\ RLt(Zero, axis_val)
                THEN {b.key} ELSE {}
    IN  slot("up", RNeg(sy)) \cup slot("down", sy)
        \cup slot("left", RNeg(sx)) \cup slot("right", sx)

\* Mutant: the direction keys are gated by "enabled" like the continuous roles.
StickApplyGated(stick, mouse_enabled, r, sx, sy) ==
    IF mouse_enabled
    THEN [r EXCEPT
            !.d = AddRole(AddRole(@, AxisRole(sx, Get(stick, "left", NoneBinding),
                                             Get(stick, "right", NoneBinding))),
                          AxisRole(sy, Get(stick, "up", NoneBinding),
                                   Get(stick, "down", NoneBinding))),
            !.new_held = @ \cup StickKeys(stick, sx, sy)]
    ELSE r

\* The body of one stick's iteration once its axes are read: continuous
\* roles (only when enabled), then its digital keys.
StickApply(stick, mouse_enabled, r, sx, sy) ==
    [r EXCEPT
       !.d = IF mouse_enabled
             THEN AddRole(AddRole(@, AxisRole(sx, Get(stick, "left", NoneBinding),
                                              Get(stick, "right", NoneBinding))),
                          AxisRole(sy, Get(stick, "up", NoneBinding),
                                   Get(stick, "down", NoneBinding)))
             ELSE @,
       !.new_held = @ \cup StickKeys(stick, sx, sy)]

\* The axis indices of one stick against the n axis values of the cycle.
StickRead(stick, axis_values, mouse_enabled, r, ax_idx, ay_idx, dz, n) ==
    IF StickSkipped(ax_idx, ay_idx, n) THEN r
    ELSE IF IndexRaises(ax_idx, ay_idx, n) THEN [r EXCEPT !.raised = TRUE]
    ELSE StickApply(stick, mouse_enabled, r,
                    apply_deadzone(AxisAt(axis_values, ax_idx), dz),
                    apply_deadzone(AxisAt(axis_values, ay_idx), dz))

\* One iteration of "for stick in analog.get('sticks', [])"; r carries dx, dy,
\* sv, sh (r.d), new_held, and whether an exception left the handler.
ProcessStick(stick, axis_values, mouse_enabled, r) ==
    StickRead(stick, axis_values, mouse_enabled, r,
              Get(stick, "axis_x", 0), Get(stick, "axis_y", 1),
              Get(stick, "deadzone", Rat(3, 20)), Len(axis_values))

RECURSIVE ProcessSticks(_, _, _, _, _)
ProcessSticks(sticks, i, axis_values, mouse_enabled, r) ==
    IF i > Len(sticks) \/ r.raised THEN r
    ELSE ProcessSticks(sticks, i + 1, axis_values, mouse_enabled,
                       ProcessStick(sticks[i], axis_values, mouse_enabled, r))

\* ---- stick layouts and axis samples the model runs the handler on --------
\* The values an axis is sampled at.
AxisValues == { Rat(-1, 1), Rat(-1, 2), Zero, Rat(1, 2), One }

DefaultRightStick ==
    [axis_x |-> 2, axis_y |-> 3, deadzone |-> Rat(3, 20),
     up |-> NoneBinding, down |-> NoneBinding,
     left |-> NoneBinding, right |-> NoneBinding]

KeyBinding(k) == [type |-> "key", key |-> k]
Continuous(t, sens) == [type |-> t, sensitivity |-> sens]

\* Left stick: keys on the y axis, pointer motion on the x axis.
StickKeysAndMouse ==
    [axis_x |-> 0, axis_y |-> 1, deadzone |-> Zero,
     up |-> KeyBinding("w"), down |-> KeyBinding("s"),
     left |-> NoneBinding, right |-> Continuous("mouse_x", 36)]

\* Scrolling behind a deadzone of 1/2; the horizontal binding has no
\* "sensitivity" entry.
StickScroll ==
    [axis_x |-> 0, axis_y |-> 1, deadzone |-> Rat(1, 2),
     up |-> Continuous("scroll_v", 30), down |-> NoneBinding,
     left |-> [type |-> "scroll_h"], right |-> NoneBinding]

\* One key on both horizontal slots.
StickSameKeyTwice ==
    [axis_x |-> 1, axis_y |-> 0, deadzone |-> Zero,
     up |-> NoneBinding, down |-> KeyBinding("s"),
     left |-> KeyBinding("a"), right |-> KeyBinding("a")]

\* A key and pointer motion on the same axis.
StickKeyOverMouse ==
    [axis_x |-> 0, axis_y |-> 1, deadzone |-> Zero,
     up |-> KeyBinding("w"), down |-> Continuous("mouse_y", 30),
     left |-> KeyBinding("a"), right |-> KeyBinding("w")]

\* The keys of the other stick again, its y axis read with a negative index.
StickSharedKeys ==
    [axis_x |-> 1, axis_y |-> -2, deadzone |-> Rat(1, 2),
     up |-> KeyBinding("w"), down |-> NoneBinding,
     left |-> NoneBinding, right |-> KeyBinding("a")]

\* An axis index below -len(axis_values).
StickBadIndex ==
    [axis_x |-> 0, axis_y |-> -3, deadzone |-> Zero,
     up |-> NoneBinding, down |-> NoneBinding,
     left |-> NoneBinding, right |-> NoneBinding]

\* Both horizontal slots carry a continuous binding.
StickBothSlots ==
    [axis_x |-> 0, axis_y |-> 1, deadzone |-> Zero,
     up |-> NoneBinding, down |-> NoneBinding,
     left |-> Continuous("scroll_h", 30), right |-> Continuous("mouse_x", 36)]

Profiles ==
    { <<StickKeysAndMouse, DefaultRightStick>>,
      <<StickBothSlots, DefaultRightStick>>,
      <<StickScroll, StickSameKeyTwice>>,
      <<StickKeyOverMouse, StickSharedKeys>>,
      <<StickKeysAndMouse, StickBadIndex>> }

\* The axes a device of the App-level model reports.
AxisSamples == [1 .. 2 -> AxisValues]

NoSticksYet == [d |-> NoDelta, new_held |-> {}, raised |-> FALSE]

\* The stick loop over every layout and sample, computed once (@@ makes each
\* level an explicit function).
StickLoopTable ==
    [sticks \in Profiles |->
        [axis_values \in AxisSamples |->
            [mouse_enabled \in BOOLEAN |->
                ProcessSticks(sticks, 1, axis_values, mouse_enabled, NoSticksYet)]
            @@ EmptyDict]
        @@ EmptyDict]
    @@ EmptyDict

\* for stick in analog.get("sticks", []): ... from dx = dy = sv = sh = 0.0 and
\* new_held = set().
StickLoop(sticks, axis_values, mouse_enabled) ==
    IF sticks \in Profiles /\ axis_values \in AxisSamples
    THEN StickLoopTable[sticks][axis_values][mouse_enabled]
    ELSE ProcessSticks(sticks, 1, axis_values, mouse_enabled, NoSticksYet)

\* Mutant: the accumulators keep their remainders while output is disabled.
KeepWhenDisabled(a, mouse_enabled) == a

\* if not mouse_enabled: self._acc_x = ... = 0.0
ZeroIfDisabled(a, mouse_enabled) == IF ~mouse_enabled THEN Zero ELSE a

\* The whole units of t and what is left of it.
Split(t) == [acc |-> RSub(t, RInt(Trunc(t))), whole |-> Trunc(t)]

\* Mutant: the remainder is dropped once a whole unit has been issued.
AccumulateDropsRemainder(a, delta) ==
    [acc |-> IF Split(RAdd(a, delta)).whole # 0 THEN Zero
             ELSE Split(RAdd(a, delta)).acc,
     whole |-> Split(RAdd(a, delta)).whole]

\* self._acc += d; i = int(self._acc); self._acc -= i
Accumulate(a, delta) == Split(RAdd(a, delta))

\* Mutant: every key of the new set is pressed again each cycle.
PressAllHeld(held, new_held) == new_held

\* for key in new_held - self._held_keys: actions.key_combo_down(key)
KeysToPress(held, new_held) == new_held \ held

\* for key in self._held_keys - new_held: actions.key_combo_up(key)
KeysToRelease(held, new_held) == held \ new_held

\* actions.move_mouse_relative, scroll_v_relative, scroll_h_relative: the
\* injection primitives, which return without raising; a call is recorded
\* with its arguments.
move_mouse_relative(dx, dy) == [op |-> "move_mouse_relative", dx |-> dx, dy |-> dy]
scroll_v_relative(clicks) == [op |-> "scroll_v_relative", clicks |-> clicks]
scroll_h_relative(clicks) == [op |-> "scroll_h_relative", clicks |-> clicks]

\* actions.key_combo_down / key_combo_up called for each key of a set: the
\* keys that are down at the OS afterwards.  They return without raising.
key_combo_down(down, keys) == down \cup keys
key_combo_up(down, keys) == down \ keys

\* The motion calls of one cycle, in program order.
MotionCalls(ix, iy, isv, ish) ==
    (IF ix # 0 \/ iy # 0 THEN << move_mouse_relative(ix, iy) >> ELSE <<>>)
    \o (IF isv # 0 THEN << scroll_v_relative(isv) >> ELSE <<>>)
    \o (IF ish # 0 THEN << scroll_h_relative(ish) >> ELSE <<>>)

\* The accumulation and the calls of a cycle whose stick loop ended normally.
AxesAccumulate(mouse_enabled, z, held, r, nx, ny, nsv, nsh) ==
    [raised |-> FALSE, enabled |-> mouse_enabled,
     acc |-> IF mouse_enabled
             THEN [x |-> nx.acc, y |-> ny.acc, sv |-> nsv.acc, sh |-> nsh.acc]
             ELSE z,
     held |-> r.new_held, new_held |-> r.new_held,
     ups |-> KeysToRelease(held, r.new_held),
     downs |-> KeysToPress(held, r.new_held),
     d |-> r.d,
     calls |-> IF mouse_enabled
               THEN MotionCalls(nx.whole, ny.whole, nsv.whole, nsh.whole)
               ELSE <<>>]

\* What follows the stick loop, whose result is r.
AxesAfterSticks(mouse_enabled, z, held, r) ==
    IF r.raised
    THEN [raised |-> TRUE, enabled |-> mouse_enabled, acc |-> z,
          held |-> held, new_held |-> {}, ups |-> {}, downs |-> {},
          d |-> NoDelta, calls |-> <<>>]
    ELSE AxesAccumulate(mouse_enabled, z, held, r,
                        Accumulate(z.x, r.d.mouse_x), Accumulate(z.y, r.d.mouse_y),
                        Accumulate(z.sv, r.d.scroll_v), Accumulate(z.sh, r.d.scroll_h))

AxesEnabled(cfg_analog, axis_values, held, a, mouse_enabled) ==
    AxesAfterSticks(mouse_enabled,
        [x |-> ZeroIfDisabled(a.x, mouse_enabled),
         y |-> ZeroIfDisabled(a.y, mouse_enabled),
         sv |-> ZeroIfDisabled(a.sv, mouse_enabled),
         sh |-> ZeroIfDisabled(a.sh, mouse_enabled)],
        held,
        StickLoop(Get(cfg_analog, "sticks", <<>>), axis_values, mouse_enabled))

\* The key events of the handler alone, with mouse_enabled given: the stick
\* loop and the reconciliation of the held set.
KeysAfterSticks(held, r) ==
    IF r.raised
    THEN [raised |-> TRUE, held |-> held, ups |-> {}, downs |-> {}]
    ELSE [raised |-> FALSE, held |-> r.new_held,
          ups |-> KeysToRelease(held, r.new_held),
          downs |-> KeysToPress(held, r.new_held)]

KeysOnly(cfg_analog, axis_values, held, mouse_enabled) ==
    KeysAfterSticks(held,
        StickLoop(Get(cfg_analog, "sticks", <<>>), axis_values, mouse_enabled))

\* App._on_axes_update(axis_values) on the state (held, accumulators a):
\* the new state, the calls made, and whether it raised.
on_axes_update(cfg_analog, axis_values, held, a) ==
    AxesEnabled(cfg_analog, axis_values, held, a,
                Get(cfg_analog, "enabled", FALSE))

\* Mutant: the held keys are forgotten without being released.
ForgetHeldKeys(held) == {}

\* App._release_all_held_keys: the keys it sends keyUp for (then clear()).
release_all_held_keys(held) == held

(***************************************************************************)
(* controller.py: ControllerListener                                       *)
(***************************************************************************)
\* pygame.joystick.quit(); pygame.joystick.init(): every open handle is
\* uninitialised.
Reinit(j) == IF j = "init" THEN "quit" ELSE j

\* Mutant: the index test is off by one.
StartIndexOffByOne(total, index) == index > total

\* if self._joystick_index >= total
IndexNotFound(total, index) == index >= total

\* start() past the "already running" test: what it returns, given the
\* enumerated device count and how opening the device goes ("ok", or
\* pygame.error from the constructor / from init()).  Opening an index that
\* does not exist raises in the constructor.
StartReturn(total, index, open) ==
    IF total = 0 THEN <<FALSE, "no_device">>
    ELSE IF IndexNotFound(total, index) THEN <<FALSE, "index_not_found">>
    ELSE IF open # "ok" \/ index >= total THEN <<FALSE, "init_error">>
    ELSE <<TRUE, "">>

OpenOutcomes == {"ok", "ctor_error", "init_error"}

\* Mutant: a button held down fires on every cycle.
LevelTriggered(current, previous) == current = 1

\* if current == 1 and previous == 0
RisingEdge(current, previous) == current = 1 /\ previous = 0

\* for btn in range(num_buttons): ...; r carries the buttons whose callback
\* was invoked, in order, and the dict prev_states.
RECURSIVE ScanButtons(_, _, _, _)
ScanButtons(btn, n, sample, r) ==
    IF btn >= n THEN r
    ELSE LET current == sample[btn]
             previous == Get(r.prev, btn, 0)
         IN  ScanButtons(btn + 1, n, sample,
                [pressed |-> IF RisingEdge(current, previous)
                             THEN Append(r.pressed, btn) ELSE r.pressed,
                 prev |-> [b \in DOMAIN r.prev \cup {btn} |->
                              IF b = btn THEN current ELSE r.prev[b]]])

(***************************************************************************)
(* gui/app.py: App._on_button_press and the "Action-BTN" threads.          *)
(* A key of cfg["binds"] is a text, modelled as the sequence of its        *)
(* characters.                                                             *)
(***************************************************************************)
Digits == <<"0", "1", "2", "3", "4", "5", "6", "7", "8", "9">>

\* Python str(n) for n >= 0: decimal digits, no leading zero.
RECURSIVE str(_)
str(n) ==
    IF n < 10 THEN << Digits[n + 1] >>
    ELSE Append(str(n \div 10), Digits[(n % 10) + 1])

\* if not bind: None and {} are both false.
Truthy(bind) == DOMAIN bind # {}

\* Mutant: the legacy combo moves and clicks without saving the position.
MouseComboNoRestore(x, y) ==
    << [action |-> "move_mouse", x |-> x, y |-> y], [action |-> "click_left"] >>

\* actions.execute_mouse_combo(x, y): the steps it hands to execute_sequence.
MouseComboSteps(x, y) ==
    << [action |-> "move_mouse", x |-> x, y |-> y, save_restore |-> TRUE],
       [action |-> "click_left"] >>

\* run(): the entry point the thread calls for its bind, and the steps that
\* entry point executes.
RunCall(bind) ==
    LET btype == bind.type
    IN  CASE btype = "keyboard" ->
               [fn |-> "execute_keyboard", key |-> bind.key,
                steps |-> << [action |-> "key", key |-> bind.key] >>]
          [] btype = "sequence" ->
               [fn |-> "execute_sequence", steps |-> bind.steps]
          [] btype = "mouse_combo" ->
               [fn |-> "execute_mouse_combo", x |-> bind.x, y |-> bind.y,
                steps |-> MouseComboSteps(bind.x, bind.y)]
          [] OTHER -> [fn |-> "return", steps |-> <<>>]

\* Mutant: a thread is started for every press, bound or not.
DispatchUnbound(table, button) ==
    << [button |-> button, bind |-> Get(table, str(button), EmptyDict),
        call |-> [fn |-> "return", steps |-> <<>>], pc |-> 1, state |-> "ready"] >>

\* App._on_button_press(button): the threads it starts.
on_button_press(table, button) ==
    IF ~Truthy(Get(table, str(button), EmptyDict)) THEN <<>>
    ELSE << [button |-> button, bind |-> table[str(button)],
             call |-> RunCall(table[str(button)]), pc |-> 1,
             state |-> "ready"] >>

\* The callbacks of one button scan, in order.
RECURSIVE DispatchAll(_, _, _)
DispatchAll(table, pressed, i) ==
    IF i > Len(pressed) THEN <<>>
    ELSE on_button_press(table, pressed[i]) \o DispatchAll(table, pressed, i + 1)

\* Mutant: the thread looks its button up in the table again at each step.
UnitAdvanceLate(u) ==
    LET now  == Get(binds, str(u.button), [type |-> "return"])
        bind == IF Truthy(now) THEN now ELSE [type |-> "return"]
        call == RunCall(bind)
    IN  IF u.pc >= Len(call.steps)
        THEN [u EXCEPT !.bind = bind, !.call = call, !.state = "done"]
        ELSE [u EXCEPT !.bind = bind, !.call = call, !.pc = @ + 1,
                       !.state = "ready"]

\* One step of an Action-BTN thread u: a delay step first suspends the
\* thread in time.sleep, then returns; any other step is executed at once;
\* after the last step the entry point returns.
UnitAdvance(u) ==
    IF u.pc > Len(u.call.steps) THEN [u EXCEPT !.state = "done"]
    ELSE IF u.call.steps[u.pc].action = "delay" /\ u.state = "ready"
         THEN [u EXCEPT !.state = "sleep"]
         ELSE [u EXCEPT !.pc = @ + 1,
                        !.state = IF u.pc = Len(u.call.steps) THEN "done"
                                  ELSE "ready"]

\* The controller object's fields, and the state of its thread.
Self ==
    [running |-> running, thread |-> thread, joystick |-> joystick,
     joystick_index |-> joystick_index, loop_pc |-> loop_pc]

Alive(pc) == pc \in {"while", "body", "after"}

\* ControllerListener.start() on the object self.
start(self, total, open) ==
    IF self.running
    THEN [self |-> self, ret |-> <<TRUE, "">>, spawned |-> 0]
    ELSE LET ret == StartReturn(total, self.joystick_index, open)
         IN  IF ret[1]
             THEN [self |-> [self EXCEPT !.running = TRUE, !.thread = "ref",
                                         !.joystick = "init", !.loop_pc = "while"],
                   ret |-> ret, spawned |-> 1]
             ELSE [self |-> [self EXCEPT !.joystick =
                                IF ret[2] = "init_error" /\ open = "init_error"
                                THEN "quit" ELSE Reinit(@)],
                   ret |-> ret, spawned |-> 0]

\* Mutant: stop() keeps the device handle.
KeepHandle(j) == j

\* if self._joystick: self._joystick.quit(); self._joystick = None
ReleaseHandle(j) == "None"

\* ControllerListener.stop() after the join: the references are dropped.
stop_release(self) ==
    [self EXCEPT !.thread = "None", !.joystick = ReleaseHandle(@),
                 !.loop_pc = "none"]

SetSelf(self) ==
    /\ running' = self.running
    /\ thread' = self.thread
    /\ joystick' = self.joystick
    /\ joystick_index' = self.joystick_index
    /\ loop_pc' = self.loop_pc

\* -- bounds --------------------------------------------------------------
MaxDevices == 2
MaxCycles == 6
MaxUnits == 2
MaxBindCycles == 3
\* The one-button device of SpecBinds is polled for fewer cycles.
CycleBound == IF num_buttons = 1 THEN MaxBindCycles ELSE MaxCycles

ButtonsOf(n) == 0 .. (n - 1)
ZeroCount(n) == [b \in ButtonsOf(n) |-> 0]

\* Mutant: the new loop goes on from the previous loop's button states.
StaleLoop ==
    /\ prev_states' = prev_states
    /\ hist' = <<>>
    /\ last_sample' = EmptyDict
    /\ invocations' = ZeroCount(num_buttons)
    /\ rises' = ZeroCount(num_buttons)
    /\ units' = units

\* A polling thread starts: prev_states = {} and a fresh record of its run.
FreshLoop ==
    /\ prev_states' = EmptyDict
    /\ hist' = <<>>
    /\ last_sample' = EmptyDict
    /\ invocations' = ZeroCount(num_buttons)
    /\ rises' = ZeroCount(num_buttons)
    /\ units' = units

\* ---- the caller of the ControllerListener API ---------------------------
SetJoystickIndex ==
    /\ ui_pc = "idle"
    /\ \E index \in 0 .. MaxDevices - 1 :
          /\ index # joystick_index
          /\ joystick_index' = index
          /\ ev' = [op |-> "set_joystick_index", index |-> index]
    /\ UNCHANGED <<running, thread, joystick, loop_pc, prev_states>>
    /\ UNCHANGED <<devVars, sideVars, appVars, ui_pc, btnObs, axesObs, dzVars, seqVars>>

\* start() called directly.
Start ==
    /\ ui_pc = "idle"
    /\ \E open \in OpenOutcomes :
          LET r == start(Self, dev_count, open)
              reached == ~running /\ dev_count > 0 /\ joystick_index < dev_count
          IN  /\ open # "ok" => reached
              /\ SetSelf(r.self)
              /\ IF r.spawned = 1 THEN FreshLoop
                 ELSE UNCHANGED <<prev_states, btnObs>>
              /\ ev' = [op |-> "start", was_running |-> running,
                        alive |-> Alive(loop_pc),
                        total |-> dev_count, index |-> joystick_index,
                        open |-> open, ret |-> r.ret, spawned |-> r.spawned]
    /\ UNCHANGED <<devVars, sideVars, appVars, ui_pc, axesObs, dzVars, seqVars>>

\* stop() called directly: self._running = False, then either the join
\* blocks on the live thread or the references are dropped at once.
Stop ==
    /\ ui_pc = "idle"
    /\ IF thread = "ref" /\ Alive(loop_pc)
       THEN /\ running' = FALSE
            /\ ui_pc' = "stop"
            /\ ev' = [op |-> "stop_join"]
            /\ UNCHANGED <<thread, joystick, joystick_index, loop_pc>>
       ELSE /\ SetSelf(stop_release([Self EXCEPT !.running = FALSE]))
            /\ ev' = [op |-> "stop", joined |-> FALSE]
            /\ UNCHANGED ui_pc
    /\ UNCHANGED <<prev_states, devVars, sideVars, appVars, btnObs, axesObs, dzVars, seqVars>>

\* join(timeout=2.0) returns once the thread has ended: a cycle lasts one
\* 1/60 s tick plus callbacks that do not block.
StopJoined ==
    /\ ui_pc = "stop"
    /\ loop_pc = "dead"
    /\ SetSelf(stop_release(Self))
    /\ ui_pc' = "idle"
    /\ ev' = [op |-> "stop", joined |-> TRUE]
    /\ UNCHANGED <<prev_states, devVars, sideVars, appVars, btnObs, axesObs, dzVars, seqVars>>

\* ControllerListener.get_joystick_names(): re-initialises the subsystem.
GetJoystickNames ==
    /\ ui_pc = "idle"
    /\ joystick' = Reinit(joystick)
    /\ ev' = [op |-> "get_joystick_names", count |-> dev_count]
    /\ UNCHANGED <<running, thread, joystick_index, loop_pc, prev_states>>
    /\ UNCHANGED <<devVars, sideVars, appVars, ui_pc, btnObs, axesObs, dzVars, seqVars>>

\* ---- the environment: devices come and go -------------------------------
Plug ==
    /\ dev_count < MaxDevices
    /\ dev_count' = dev_count + 1
    /\ ev' = [op |-> "plug"]
    /\ UNCHANGED <<num_buttons, n_axes, sideVars, ctlVars, appVars, ui_pc, btnObs,
                   axesObs, dzVars, seqVars>>

Unplug ==
    /\ dev_count > 0
    /\ dev_count' = dev_count - 1
    /\ ev' = [op |-> "unplug"]
    /\ UNCHANGED <<num_buttons, n_axes, sideVars, ctlVars, appVars, ui_pc, btnObs,
                   axesObs, dzVars, seqVars>>

\* ---- the polling thread: _poll_loop --------------------------------------
\* while self._running:
\* Mutant: the loop condition does not read self._running.
LoopWhileDeaf ==
    /\ loop_pc = "while"
    /\ Len(hist) < CycleBound
    /\ Len(units) < MaxUnits
    /\ loop_pc' = "body"
    /\ ev' = [op |-> "while"]
    /\ UNCHANGED <<running, thread, joystick, joystick_index, prev_states>>
    /\ UNCHANGED <<devVars, sideVars, appVars, ui_pc, btnObs, axesObs, dzVars, seqVars>>

\* while self._running: the loop condition, read before every cycle.
LoopWhile ==
    /\ loop_pc = "while"
    /\ IF running
       THEN /\ Len(hist) < CycleBound
            /\ Len(units) < MaxUnits
            /\ loop_pc' = "body"
       ELSE loop_pc' = "after"
    /\ ev' = [op |-> "while"]
    /\ UNCHANGED <<running, thread, joystick, joystick_index, prev_states>>
    /\ UNCHANGED <<devVars, sideVars, appVars, ui_pc, btnObs, axesObs, dzVars, seqVars>>

Acc == [x |-> acc_x, y |-> acc_y, sv |-> acc_sv, sh |-> acc_sh]

SetAcc(a) ==
    /\ acc_x' = a.x
    /\ acc_y' = a.y
    /\ acc_sv' = a.sv
    /\ acc_sh' = a.sh

\* The units the calls of a cycle issued, per accumulator.
Issued(calls) ==
    LET sum(op, field) ==
            IF \E i \in DOMAIN calls : calls[i].op = op
            THEN (CHOOSE c \in { calls[i] : i \in DOMAIN calls } : c.op = op)[field]
            ELSE 0
    IN  [x |-> sum("move_mouse_relative", "dx"),
         y |-> sum("move_mouse_relative", "dy"),
         sv |-> sum("scroll_v_relative", "clicks"),
         sh |-> sum("scroll_h_relative", "clicks")]

\* Mutant: only a missing handle counts, not one that is no longer
\* initialised.
HandleMissing(j) == j = "None"

\* if not (self._joystick and self._joystick.get_init())
HandleLost(j) == j # "init"

\* A cycle with no axes consumer: nothing of the App's analog state is
\* touched and no injection call is made.
NotCalled(held, a) ==
    [raised |-> FALSE, enabled |-> FALSE, acc |-> a, held |-> held,
     new_held |-> held, ups |-> {}, downs |-> {}, d |-> NoDelta,
     calls |-> <<>>]

\* The on_button_press calls of a scan, in the order of the for loop.
PressCalls(pressed) ==
    [i \in DOMAIN pressed |-> [fn |-> "on_button_press", button |-> pressed[i]]]

\* Mutant: the axes are reported before the buttons are scanned.
CycleCallsAxesFirst(pressed, consumer, axis_values) ==
    << [fn |-> "get_init"] >>
    \o (IF consumer # "None"
        THEN << [fn |-> "on_axes_update", axis_values |-> axis_values] >>
        ELSE <<>>)
    \o PressCalls(pressed)

\* The calls of one pass of the try block that reaches its end, in program
\* order: the handle test, on_button_press for the rising buttons, then
\* "if self.on_axes_update is not None" the axes callback.
CycleCalls(pressed, consumer, axis_values) ==
    << [fn |-> "get_init"] >>
    \o PressCalls(pressed)
    \o (IF consumer # "None"
        THEN << [fn |-> "on_axes_update", axis_values |-> axis_values] >>
        ELSE <<>>)

\* The cycle ends the loop: "break".
Break(why) ==
    /\ loop_pc' = "after"
    /\ ev' = [op |-> "cycle", completed |-> FALSE, why |-> why,
              pressed |-> <<>>, axes |-> FALSE,
              trace |-> << [fn |-> "get_init"] >>]
    /\ UNCHANGED <<prev_states, btnObs, appVars, axesObs>>

\* One pass of the try block: pump, handle check, button scan, axes update,
\* then clock.tick.
LoopBody ==
    /\ loop_pc = "body"
    /\ \/ /\ HandleLost(joystick)
          /\ Break("disconnected")
       \/ /\ ~HandleLost(joystick)
          /\ joystick_index >= dev_count
          /\ Break("pygame.error")
       \/ /\ ~HandleLost(joystick)
          /\ \E sample \in [ButtonsOf(num_buttons) -> {0, 1}],
                axis_values \in [1 .. n_axes -> AxisValues] :
                \E scan \in {ScanButtons(0, num_buttons, sample,
                                 [pressed |-> <<>>, prev |-> prev_states])},
                   up \in {IF axes_consumer = "None"
                           THEN NotCalled(held_keys, Acc)
                           ELSE on_axes_update(analog, axis_values, held_keys, Acc)},
                   flipped \in {KeysOnly(analog, axis_values, held_keys,
                                         ~Get(analog, "enabled", FALSE))} :
                \E pressed \in {{ scan.pressed[i] : i \in DOMAIN scan.pressed }},
                   started \in {DispatchAll(binds, scan.pressed, 1)},
                   issued \in {Issued(up.calls)} :
                LET rose(b) == sample[b] = 1 /\ Get(last_sample, b, 0) = 0
                    mode == IF up.enabled THEN "on" ELSE "off"
                IN  /\ prev_states' = scan.prev
                    /\ last_sample' = sample
                    /\ hist' = IF num_buttons > 0 THEN Append(hist, sample[0])
                               ELSE hist
                    /\ invocations' = [b \in DOMAIN invocations |->
                          invocations[b] + IF b \in pressed THEN 1 ELSE 0]
                    /\ rises' = [b \in DOMAIN rises |->
                          rises[b] + IF rose(b) THEN 1 ELSE 0]
                    /\ units' = units \o started
                    /\ held_keys' = up.held
                    /\ SetAcc(up.acc)
                    /\ os_down' = key_combo_down(key_combo_up(os_down, up.ups), up.downs)
                    /\ net' = IF axes_consumer = "None" THEN net
                              ELSE IF up.enabled /\ ~up.raised
                              THEN [x |-> RSub(RAdd(net.x, up.d.mouse_x), RInt(issued.x)),
                                    y |-> RSub(RAdd(net.y, up.d.mouse_y), RInt(issued.y)),
                                    sv |-> RSub(RAdd(net.sv, up.d.scroll_v), RInt(issued.sv)),
                                    sh |-> RSub(RAdd(net.sh, up.d.scroll_h), RInt(issued.sh))]
                              ELSE IF up.enabled THEN net ELSE ZeroNet
                    /\ prev_cycle' = IF axes_consumer = "None" THEN prev_cycle
                                     ELSE mode
                    /\ loop_pc' = IF up.raised THEN "after" ELSE "while"
                    /\ ev' = [op |-> "cycle", completed |-> ~up.raised,
                              why |-> IF up.raised THEN "exception" ELSE "",
                              sample |-> sample, before |-> last_sample,
                              pressed |-> scan.pressed, started |-> started,
                              table |-> binds, units_before |-> units,
                              axes |-> TRUE, axis_values |-> axis_values,
                              enabled |-> up.enabled, after |-> prev_cycle,
                              held_before |-> held_keys,
                              new_held |-> up.new_held, ups |-> up.ups,
                              downs |-> up.downs, d |-> up.d,
                              calls |-> up.calls,
                              flipped |-> flipped,
                              trace |-> CycleCalls(scan.pressed, axes_consumer,
                                                   axis_values)]
                    /\ UNCHANGED <<analog, binds, dlg, is_listening>>
    /\ UNCHANGED <<running, thread, joystick, joystick_index>>
    /\ UNCHANGED <<devVars, sideVars, ui_pc, dzVars, seqVars>>

\* After the loop: self._running = False, and the thread ends.
LoopAfter ==
    /\ loop_pc = "after"
    /\ running' = FALSE
    /\ loop_pc' = "dead"
    /\ ev' = [op |-> "loop_end"]
    /\ UNCHANGED <<thread, joystick, joystick_index, prev_states>>
    /\ UNCHANGED <<devVars, sideVars, appVars, ui_pc, btnObs, axesObs, dzVars, seqVars>>

PollThread == LoopWhile \/ LoopBody \/ LoopAfter

(***************************************************************************)
(* Spec: a ControllerListener driven through its API, on devices with two  *)
(* buttons and no axes, the App's callbacks registered.                    *)
(***************************************************************************)
Init ==
    /\ Constructed
    /\ dev_count \in 0 .. 1
    /\ num_buttons = 2
    /\ n_axes = 0
    /\ analog = [enabled |-> FALSE, sticks |-> <<DefaultRightStick>>]
    /\ binds = EmptyDict
    /\ DzIdle
    /\ SeqIdle

Next ==
    \/ SetJoystickIndex
    \/ Start
    \/ Stop
    \/ StopJoined
    \/ GetJoystickNames
    \/ Plug
    \/ Unplug
    \/ PollThread

Spec == Init /\ [][Next]_vars

\* A polling cycle that got as far as scanning the buttons.
Scanned == ev.op = "cycle" /\ ev.axes

PressedSet == { ev.pressed[i] : i \in DOMAIN ev.pressed }

\* The 0 -> 1 transitions of a sequence of samples that follows prev.
RECURSIVE CountRises(_, _)
CountRises(h, prev) ==
    IF h = <<>> THEN 0
    ELSE (IF Head(h) = 1 /\ prev = 0 THEN 1 ELSE 0) + CountRises(Tail(h), Head(h))

\* C1: in every polling cycle, on_button_press(btn) is invoked (once) if and
\* only if the cycle's sample of btn is 1 and the previous cycle's sample of
\* btn was 0 (0 when there is no previous cycle); the stored previous values
\* are the cycle's samples afterwards; so the invocations for a button number
\* the 0 -> 1 transitions of its samples, two for [0,0,1,1,0,1].
C1_RisingEdge ==
    /\ Scanned =>
          /\ \A b \in ButtonsOf(num_buttons) :
                b \in PressedSet <=> (ev.sample[b] = 1 /\ Get(ev.before, b, 0) = 0)
          /\ PressedSet \subseteq ButtonsOf(num_buttons)
          /\ Len(ev.pressed) = Cardinality(PressedSet)
          /\ prev_states = ev.sample
    /\ invocations = rises
    /\ num_buttons > 0 /\ DOMAIN invocations # {} =>
          invocations[0] = CountRises(hist, 0)
    /\ hist = <<0, 0, 1, 1, 0, 1>> => invocations[0] = 2

C1_Witness ==
    /\ Scanned
    /\ hist = <<0, 0, 1, 1, 0, 1>>
    /\ invocations[0] = 2
    /\ ev.pressed = <<0>>

StartCalled == ev.op = "start" /\ ~ev.was_running

\* C9: start() called while not running returns (False, no device) when no
\* device is enumerated, (False, index not found) when the selected index is
\* at or above the device count, (False, init error) when opening the device
\* raises pygame.error; after a failure is_running is False and no thread was
\* created; otherwise it returns (True, ""), is_running is True and one
\* polling thread has been started.
C9_StartOutcomes ==
    StartCalled =>
       /\ ev.ret = IF ev.total = 0 THEN <<FALSE, "no_device">>
                   ELSE IF ev.index >= ev.total THEN <<FALSE, "index_not_found">>
                   ELSE IF ev.open # "ok" THEN <<FALSE, "init_error">>
                   ELSE <<TRUE, "">>
       /\ ~ev.ret[1] => ~running /\ ev.spawned = 0 /\ ~Alive(loop_pc)
       /\ ev.ret[1] => /\ running
                       /\ ev.spawned = 1
                       /\ ~ev.alive
                       /\ thread = "ref"
                       /\ loop_pc = "while"

C9_Witness ==
    /\ StartCalled
    /\ ev.total = 1
    /\ ev.index = 1
    /\ ev.ret = <<FALSE, "index_not_found">>
    /\ ~running

Idle == ~running /\ thread = "None" /\ joystick = "None"

\* C10: when stop() has returned, is_running is False, the thread reference
\* is None and the device handle is None, whatever the state it was called in;
\* called on an idle listener it changes nothing, so a second stop() leaves
\* the state of the first.
C10_StopIdempotent ==
    /\ [](ev.op = "stop" => Idle /\ ~Alive(loop_pc))
    /\ [][(ev'.op = "stop" /\ ui_pc = "idle" /\ Idle) =>
             UNCHANGED <<ctlVars, devVars, sideVars, appVars, ui_pc>>]_vars

C10_Witness == ev.op = "stop" /\ ev.joined /\ Idle /\ Len(hist) > 0

\* The polling cycle found the device handle missing or uninitialised.
Disconnected == ev.op = "cycle" /\ ev.why = "disconnected"

\* C16: a cycle that finds the handle missing or no longer initialised
\* invokes no callback and leaves the loop (callbacks are invoked only in
\* cycles that found the handle initialised); a loop that has left its
\* "while" ends with is_running False; a polling thread comes to life only
\* through a start() that spawns it and a cycle is run only by a live loop;
\* and once the loop has ended by itself, start() with the selected device
\* present and opening returns success and spawns a new thread.
C16_Disconnection ==
    /\ [](Disconnected => ev.pressed = <<>> /\ ~ev.axes /\ loop_pc = "after")
    /\ [](Scanned => joystick = "init")
    /\ [](loop_pc = "dead" => ~running)
    /\ [][loop_pc = "after" /\ loop_pc' # "after" =>
             loop_pc' = "dead" /\ ~running']_vars
    /\ [][~Alive(loop_pc) /\ Alive(loop_pc') =>
             ev'.op = "start" /\ ev'.spawned = 1 /\ ev'.ret[1]]_vars
    /\ [][ev'.op = "cycle" => loop_pc = "body"]_vars
    /\ [](loop_pc = "dead" /\ thread = "ref" /\ joystick_index < dev_count =>
             LET r == start(Self, dev_count, "ok")
             IN  r.ret = <<TRUE, "">> /\ r.spawned = 1 /\ r.self.joystick = "init")

C16_Witness ==
    /\ ev.op = "loop_end"
    /\ joystick = "quit"
    /\ thread = "ref"
    /\ ui_pc = "idle"
    /\ ~running
    /\ hist = <<1, 0>>
    /\ invocations[0] = 1
    /\ start(Self, dev_count, "ok").ret[1]

\* The buttons down in the sample of the last cycle.
DownNow == { b \in DOMAIN ev.sample : ev.sample[b] = 1 }

C37_StartImpliesLiveLoop ==
    ev.op = "start" /\ ev.ret[1] => loop_pc \in {"while", "body"}

\* The listener started and stopped on a device that comes and goes; the
\* polling thread is scheduled: a thread that can take its next statement
\* takes it.
NextStop ==
    \/ Start
    \/ Stop
    \/ StopJoined
    \/ Plug
    \/ Unplug
    \/ PollThread

SpecStopFair == Init /\ [][NextStop]_vars /\ WF_vars(PollThread)

\* C33: while stop() waits in its join, the flag cleared, the loop enters no
\* cycle (the one it is in is its last) and the loop thread ends; when
\* stop() has returned no loop thread is alive, only a start() that spawns
\* a thread makes one, and a cycle (the only place the callbacks are
\* invoked from) is a step of a thread alive.
C33_StopObserved ==
    /\ [][ui_pc = "stop" /\ loop_pc # "body" => loop_pc' # "body"]_vars
    /\ [](ui_pc = "stop" => ~running)
    /\ (ui_pc = "stop" ~> loop_pc = "dead")
    /\ [](ev.op = "stop" => ~Alive(loop_pc))
    /\ [][~Alive(loop_pc) /\ Alive(loop_pc') =>
             ev'.op = "start" /\ ev'.spawned = 1]_vars
    /\ [][ev'.op = "cycle" => loop_pc = "body"]_vars

\* stop() has returned from its join on a thread that had run a cycle.
C33_Witness ==
    /\ ev.op = "stop"
    /\ ev.joined
    /\ Len(hist) >= 1
    /\ loop_pc = "none"
    /\ ~running

(***************************************************************************)
(* SpecCycle: a ControllerListener constructed with or without an axes     *)
(* consumer, on a device with two buttons and one axis.                    *)
(***************************************************************************)
InitCycle ==
    /\ \E consumer \in {"None", "_on_axes_update"} : ConstructedWith(consumer)
    /\ dev_count = 1
    /\ num_buttons = 2
    /\ n_axes = 1
    /\ analog = [enabled |-> FALSE, sticks |-> <<DefaultRightStick>>]
    /\ binds = EmptyDict
    /\ DzIdle
    /\ SeqIdle

NextCycle ==
    \/ Start
    \/ Stop
    \/ StopJoined
    \/ Unplug
    \/ PollThread

SpecCycle == InitCycle /\ [][NextCycle]_vars

\* The positions of the calls of fn in the cycle's call sequence.
CallsOf(fn) == { i \in DOMAIN ev.trace : ev.trace[i].fn = fn }

\* C32: in every cycle the handle test is the first call and occurs once;
\* the on_button_press calls are those of the buttons found risen, in
\* increasing index, and all of them come before the on_axes_update call;
\* a cycle that completes calls on_axes_update once, with one sample per
\* axis of the device as read, when a consumer is registered; with no
\* consumer no cycle calls it.
C32_CycleOrder ==
    ev.op = "cycle" =>
       /\ CallsOf("get_init") = {1}
       /\ \A i \in CallsOf("on_button_press"), j \in CallsOf("on_button_press") :
             i < j => ev.trace[i].button < ev.trace[j].button
       /\ \A i \in CallsOf("on_button_press"), j \in CallsOf("on_axes_update") :
             i < j
       /\ ev.axes => Cardinality(CallsOf("on_button_press")) = Len(ev.pressed)
                     /\ \A i \in DOMAIN ev.pressed :
                           ev.trace[i + 1] = [fn |-> "on_button_press",
                                              button |-> ev.pressed[i]]
       /\ ev.completed =>
             Cardinality(CallsOf("on_axes_update")) =
                IF axes_consumer = "None" THEN 0 ELSE 1
       /\ \A j \in CallsOf("on_axes_update") :
             /\ ev.trace[j].axis_values = ev.axis_values
             /\ DOMAIN ev.trace[j].axis_values = 1 .. n_axes
       /\ axes_consumer = "None" => CallsOf("on_axes_update") = {}

\* A completed cycle in which both buttons rose and the axis was off
\* centre, with a consumer registered: four calls.
C32_Witness ==
    /\ ev.op = "cycle"
    /\ ev.completed
    /\ axes_consumer # "None"
    /\ ev.pressed = <<0, 1>>
    /\ Len(ev.trace) = 4
    /\ ev.trace[4].fn = "on_axes_update"
    /\ ev.trace[4].axis_values = << One >>

\* A completed cycle of a listener constructed without an axes consumer.
C32_NoConsumerCycle ==
    /\ ev.op = "cycle"
    /\ ev.completed
    /\ axes_consumer = "None"
    /\ ev.pressed = <<0, 1>>
    /\ Len(ev.trace) = 3

(***************************************************************************)
(* SpecOrphan: stop() whose join(timeout=2.0) can return with the polling  *)
(* thread still alive, followed by start(); one button, no axes.           *)
(***************************************************************************)
MaxOrphanCycles == 2

\* stop(): is_alive() was True and join(timeout=2.0) returned before the
\* thread ended; "self._thread = None" and the release of the handle
\* follow all the same.  The thread keeps its position and its locals.
StopTimedOut ==
    /\ ui_pc = "stop"
    /\ Alive(loop_pc)
    /\ ~Alive(orphan.pc)
    /\ orphan' = [pc |-> loop_pc, prev_states |-> prev_states, entered |-> 0]
    /\ SetSelf(stop_release(Self))
    /\ ui_pc' = "idle"
    /\ ev' = [op |-> "stop", joined |-> FALSE, alive |-> TRUE]
    /\ UNCHANGED <<prev_states, axes_consumer, devVars, appVars, btnObs,
                   axesObs, dzVars, seqVars>>

\* while self._running, read by the thread left behind.
OrphanWhile ==
    /\ orphan.pc = "while"
    /\ IF running
       THEN /\ orphan.entered < MaxOrphanCycles
            /\ orphan' = [orphan EXCEPT !.pc = "body", !.entered = @ + 1]
       ELSE orphan' = [orphan EXCEPT !.pc = "after"]
    /\ ev' = [op |-> "orphan_while"]
    /\ UNCHANGED <<ctlVars, axes_consumer, devVars, appVars, ui_pc, btnObs,
                   axesObs, dzVars, seqVars>>

\* One pass of the try block by the thread left behind: it reads the
\* listener's fields as they are now and its own prev_states.
OrphanBody ==
    /\ orphan.pc = "body"
    /\ \/ /\ HandleLost(joystick)
          /\ orphan' = [orphan EXCEPT !.pc = "after"]
          /\ ev' = [op |-> "orphan_cycle", completed |-> FALSE,
                    why |-> "disconnected"]
          /\ UNCHANGED <<appVars, axesObs, units>>
       \/ /\ ~HandleLost(joystick)
          /\ joystick_index >= dev_count
          /\ orphan' = [orphan EXCEPT !.pc = "after"]
          /\ ev' = [op |-> "orphan_cycle", completed |-> FALSE,
                    why |-> "pygame.error"]
          /\ UNCHANGED <<appVars, axesObs, units>>
       \/ /\ ~HandleLost(joystick)
          /\ \E sample \in [ButtonsOf(num_buttons) -> {0, 1}],
                axis_values \in [1 .. n_axes -> AxisValues] :
                \E scan \in {ScanButtons(0, num_buttons, sample,
                                 [pressed |-> <<>>, prev |-> orphan.prev_states])},
                   up \in {IF axes_consumer = "None"
                           THEN NotCalled(held_keys, Acc)
                           ELSE on_axes_update(analog, axis_values, held_keys, Acc)} :
                \E started \in {DispatchAll(binds, scan.pressed, 1)},
                   issued \in {Issued(up.calls)} :
                    /\ orphan' = [orphan EXCEPT
                                     !.prev_states = scan.prev,
                                     !.pc = IF up.raised THEN "after" ELSE "while"]
                    /\ units' = units \o started
                    /\ held_keys' = up.held
                    /\ SetAcc(up.acc)
                    /\ os_down' = key_combo_down(key_combo_up(os_down, up.ups), up.downs)
                    /\ net' = IF axes_consumer = "None" THEN net
                              ELSE IF up.enabled /\ ~up.raised
                              THEN [x |-> RSub(RAdd(net.x, up.d.mouse_x), RInt(issued.x)),
                                    y |-> RSub(RAdd(net.y, up.d.mouse_y), RInt(issued.y)),
                                    sv |-> RSub(RAdd(net.sv, up.d.scroll_v), RInt(issued.sv)),
                                    sh |-> RSub(RAdd(net.sh, up.d.scroll_h), RInt(issued.sh))]
                              ELSE IF up.enabled THEN net ELSE ZeroNet
                    /\ prev_cycle' = IF axes_consumer = "None" THEN prev_cycle
                                     ELSE IF up.enabled THEN "on" ELSE "off"
                    /\ ev' = [op |-> "orphan_cycle", completed |-> ~up.raised,
                              why |-> IF up.raised THEN "exception" ELSE "",
                              sample |-> sample, pressed |-> scan.pressed,
                              started |-> started,
                              trace |-> CycleCalls(scan.pressed, axes_consumer,
                                                   axis_values)]
                    /\ UNCHANGED <<analog, binds, dlg, is_listening>>
    /\ UNCHANGED <<hist, last_sample, invocations, rises>>
    /\ UNCHANGED <<ctlVars, axes_consumer, devVars, ui_pc, dzVars, seqVars>>

\* After the loop the thread left behind also executes
\* self._running = False, then ends.
OrphanAfter ==
    /\ orphan.pc = "after"
    /\ running' = FALSE
    /\ orphan' = [orphan EXCEPT !.pc = "dead"]
    /\ ev' = [op |-> "orphan_end", cleared |-> running]
    /\ UNCHANGED <<thread, joystick, joystick_index, loop_pc, prev_states>>
    /\ UNCHANGED <<axes_consumer, devVars, appVars, ui_pc, btnObs, axesObs,
                   dzVars, seqVars>>

OrphanThread == OrphanWhile \/ OrphanBody \/ OrphanAfter

InitOrphan ==
    /\ Constructed
    /\ dev_count = 1
    /\ num_buttons = 1
    /\ n_axes = 0
    /\ analog = [enabled |-> FALSE, sticks |-> <<DefaultRightStick>>]
    /\ binds = EmptyDict
    /\ DzIdle
    /\ SeqIdle

NextOrphan ==
    \/ Start
    \/ Stop
    \/ StopJoined
    \/ StopTimedOut
    \/ Unplug
    \/ PollThread
    \/ OrphanThread

SpecOrphan == InitOrphan /\ [][NextOrphan]_vars

\* The thread left behind is in a cycle it entered after stop() returned.
OrphanCycling == orphan.pc = "body" /\ orphan.entered >= 1

\* C36: at most one polling thread is in a cycle at any time, also when a
\* stop() returned from its 2 s wait with the thread still alive and
\* start() was called afterwards: the thread of the latest start() is
\* never in a cycle while the thread left behind is in a cycle of its own
\* that it entered after that stop().
C36_SinglePollingLoop == ~(loop_pc = "body" /\ OrphanCycling)

(***************************************************************************)
(* SpecAnalog: the App with its listener, on devices with two axes and no  *)
(* buttons; the profile (cfg["analog"]) is one of a few stick layouts.     *)
(***************************************************************************)
\* App._start_listener, reached from _toggle_listener when not listening.
\* sel is the entry of the device dropdown.
StartListener ==
    /\ ui_pc = "idle"
    /\ ~is_listening
    /\ \E sel \in 0 .. MaxDevices - 1, open \in OpenOutcomes :
          LET idx == IF sel < dev_count THEN sel ELSE 0
              reached == ~running /\ dev_count > 0
          IN  /\ open # "ok" => reached
              /\ sel > 0 => sel < dev_count
              /\ \E r \in {start([Self EXCEPT !.joystick = Reinit(@),
                                              !.joystick_index = idx],
                                 dev_count, open)} :
                    /\ SetSelf(r.self)
                    /\ IF r.spawned = 1 THEN FreshLoop
                       ELSE UNCHANGED <<prev_states, btnObs>>
                    /\ is_listening' = r.ret[1]
                    /\ ev' = [op |-> "_start_listener", ret |-> r.ret,
                              spawned |-> r.spawned, reinit |-> TRUE,
                              alive |-> Alive(loop_pc)]
    /\ UNCHANGED <<analog, binds, dlg, held_keys, acc_x, acc_y, acc_sv, acc_sh>>
    /\ UNCHANGED <<devVars, sideVars, ui_pc, axesObs, dzVars, seqVars>>

\* The rest of _stop_listener once listener.stop() has returned.
StopCleanup ==
    /\ is_listening' = FALSE
    /\ SetAcc(ZeroNet)
    /\ held_keys' = {}
    /\ os_down' = key_combo_up(os_down, release_all_held_keys(held_keys))
    /\ net' = ZeroNet
    /\ ev' = [op |-> "_stop_listener", held_before |-> held_keys,
              ups |-> release_all_held_keys(held_keys),
              alive |-> Alive(loop_pc)]
    /\ UNCHANGED <<analog, binds, dlg, prev_cycle>>

\* App._stop_listener, reached from _toggle_listener when listening.
StopListener ==
    /\ ui_pc = "idle"
    /\ is_listening
    /\ IF thread = "ref" /\ Alive(loop_pc)
       THEN /\ running' = FALSE
            /\ ui_pc' = "_stop_listener"
            /\ ev' = [op |-> "stop_join"]
            /\ UNCHANGED <<thread, joystick, joystick_index, loop_pc>>
            /\ UNCHANGED <<appVars, axesObs>>
       ELSE /\ SetSelf(stop_release([Self EXCEPT !.running = FALSE]))
            /\ StopCleanup
            /\ UNCHANGED ui_pc
    /\ UNCHANGED <<prev_states, devVars, sideVars, btnObs, dzVars, seqVars>>

StopListenerJoined ==
    /\ ui_pc = "_stop_listener"
    /\ loop_pc = "dead"
    /\ SetSelf(stop_release(Self))
    /\ StopCleanup
    /\ ui_pc' = "idle"
    /\ UNCHANGED <<prev_states, devVars, sideVars, btnObs, dzVars, seqVars>>

\* App._save_analog_config after the "enabled" switch was flipped.
SaveAnalogConfig ==
    /\ ui_pc = "idle"
    /\ analog' = [analog EXCEPT !.enabled = ~@]
    /\ ev' = [op |-> "_save_analog_config"]
    /\ UNCHANGED <<binds, dlg, held_keys, acc_x, acc_y, acc_sv, acc_sh,
                 is_listening>>
    /\ UNCHANGED <<devVars, sideVars, ctlVars, ui_pc, btnObs, axesObs, dzVars, seqVars>>

\* App.shutdown, called by on_close: _save_analog_config() with the widgets
\* as last saved, then _release_all_held_keys(), both before the listener
\* is asked to stop.
ShutdownRelease ==
    /\ ui_pc = "idle"
    /\ held_keys' = {}
    /\ os_down' = key_combo_up(os_down, release_all_held_keys(held_keys))
    /\ ui_pc' = "shutdown"
    /\ ev' = [op |-> "shutdown", held_before |-> held_keys,
              ups |-> release_all_held_keys(held_keys),
              alive |-> Alive(loop_pc)]
    /\ UNCHANGED <<analog, binds, dlg, acc_x, acc_y, acc_sv, acc_sh, is_listening>>
    /\ UNCHANGED <<net, prev_cycle>>
    /\ UNCHANGED <<devVars, sideVars, ctlVars, btnObs, dzVars, seqVars>>

\* App.shutdown: if self._is_listening: self.listener.stop(); pygame.quit()
ShutdownStop ==
    /\ ui_pc = "shutdown"
    /\ IF is_listening /\ thread = "ref" /\ Alive(loop_pc)
       THEN /\ running' = FALSE
            /\ ui_pc' = "shutdown_join"
            /\ UNCHANGED <<thread, joystick, joystick_index, loop_pc>>
       ELSE /\ SetSelf(IF is_listening
                       THEN stop_release([Self EXCEPT !.running = FALSE])
                       ELSE Self)
            /\ ui_pc' = "exited"
    /\ ev' = [op |-> "shutdown_stop"]
    /\ UNCHANGED <<appVars, axesObs>>
    /\ UNCHANGED <<prev_states, devVars, sideVars, btnObs, dzVars, seqVars>>

\* listener.stop() returns from join; pygame.quit(); the process ends.
ShutdownJoined ==
    /\ ui_pc = "shutdown_join"
    /\ loop_pc = "dead"
    /\ SetSelf(stop_release(Self))
    /\ ui_pc' = "exited"
    /\ ev' = [op |-> "shutdown_end"]
    /\ UNCHANGED <<appVars, axesObs>>
    /\ UNCHANGED <<prev_states, devVars, sideVars, btnObs, dzVars, seqVars>>

InitAnalog ==
    /\ Constructed
    /\ dev_count = 1
    /\ num_buttons = 0
    /\ n_axes = 2
    /\ analog \in { [enabled |-> e, sticks |-> p] : e \in BOOLEAN, p \in Profiles }
    /\ binds = EmptyDict
    /\ DzIdle
    /\ SeqIdle

NextAnalog ==
    \/ StartListener
    \/ StopListener
    \/ StopListenerJoined
    \/ SaveAnalogConfig
    \/ ShutdownRelease
    \/ ShutdownStop
    \/ ShutdownJoined
    \/ Plug
    \/ Unplug
    \/ PollThread

SpecAnalog == InitAnalog /\ [][NextAnalog]_vars

\* A polling cycle in which _on_axes_update was called, and one it returned
\* from normally.
Processed == ev.op = "cycle" /\ ev.axes
Completed == Processed /\ ev.completed

\* C3: the keys whose last emitted event is keyDown are exactly the stored
\* held set, so keyDown and keyUp alternate per key, starting with keyDown;
\* a cycle emits keyDown exactly for the keys entering the computed held set
\* and keyUp exactly for those leaving it, never a keyDown for a key that
\* stays held; after the cycle the stored set is the computed one.
C3_HeldKeys ==
    /\ os_down = held_keys
    /\ Processed =>
          /\ ev.downs \cap ev.held_before = {}
          /\ ev.ups \subseteq ev.held_before
    /\ Completed =>
          /\ ev.downs = ev.new_held \ ev.held_before
          /\ ev.ups = ev.held_before \ ev.new_held
          /\ held_keys = ev.new_held

C3_Witness ==
    /\ Completed
    /\ "w" \in ev.held_before
    /\ "w" \in ev.new_held
    /\ ev.downs = {}
    /\ ev.ups = {"a"}
    /\ held_keys = {"w"}

\* C4: when _stop_listener has run, keyUp was sent once for each key of the
\* held set and for nothing else, the set is empty and the four accumulators
\* are 0; while the App is not listening no polling cycle runs (so nothing is
\* emitted), no key is down and nothing is accumulated.
C4_StopCleanup ==
    /\ ev.op = "_stop_listener" =>
          /\ ev.ups = ev.held_before
          /\ ~is_listening
    /\ ~is_listening =>
          /\ ev.op # "cycle"
          /\ ~Alive(loop_pc)
          /\ held_keys = {}
          /\ os_down = {}
          /\ Acc = ZeroNet

C4_Witness ==
    /\ ev.op = "_stop_listener"
    /\ ev.held_before = {"a", "w"}
    /\ ev.ups = {"a", "w"}
    /\ held_keys = {}

Accumulators == {"x", "y", "sv", "sh"}
DeltaOf == [x |-> "mouse_x", y |-> "mouse_y", sv |-> "scroll_v", sh |-> "scroll_h"]
HasCall(op) == \E i \in DOMAIN ev.calls : ev.calls[i].op = op

\* C5: each accumulator equals the deltas added since it was last zeroed
\* minus the whole units issued since then; its magnitude is below 1; in an
\* enabled cycle the units issued are the total truncated toward zero, and a
\* primitive is called exactly when its whole part is not 0.
C5_Accumulator ==
    /\ Acc = net
    /\ \A k \in Accumulators : RLt(RAbs(Acc[k]), One)
    /\ (Completed /\ ev.enabled) =>
          /\ \A k \in Accumulators :
                LET i == Issued(ev.calls)[k]
                    t == RAdd(Acc[k], RInt(i))
                IN  /\ i * Acc[k].n >= 0
                    /\ RLe(RInt(Abs(i)), RAbs(t))
                    /\ RLt(RAbs(t), RInt(Abs(i) + 1))
                    /\ i * t.n >= 0
          /\ HasCall("move_mouse_relative") <=>
                (Issued(ev.calls).x # 0 \/ Issued(ev.calls).y # 0)
          /\ HasCall("scroll_v_relative") <=> Issued(ev.calls).sv # 0
          /\ HasCall("scroll_h_relative") <=> Issued(ev.calls).sh # 0
          /\ Len(ev.calls) <= 3

\* The fourth of four cycles adding 3/10: one unit issued, 2/10 kept.
C5_Witness ==
    /\ Completed
    /\ ev.enabled
    /\ ev.d.mouse_x = Rat(3, 10)
    /\ ev.calls = << move_mouse_relative(1, 0) >>
    /\ acc_x = Rat(1, 5)

\* C11: in a cycle with "enabled" false the direction slots bound to a key
\* put their key in the held set and keyDown / keyUp are emitted by the
\* deflection alone: the cycle's held set and key events are those the same
\* cycle yields with the other value of "enabled".
C11_KeysNotGated ==
    Processed =>
       /\ ev.flipped.raised = ~ev.completed
       /\ ev.flipped.held = held_keys
       /\ ev.flipped.ups = ev.ups
       /\ ev.flipped.downs = ev.downs

C11_Witness ==
    /\ Completed
    /\ ~ev.enabled
    /\ ev.downs = {"w"}
    /\ ev.ups = {"s"}
    /\ held_keys = {"w"}
    /\ ev.flipped.downs = {"w"}

\* C7: a cycle processed while "enabled" is false leaves the four
\* accumulators at 0 and calls no motion primitive; the first enabled cycle
\* after such a cycle issues the truncation of its own deltas and keeps
\* their remainders.
C7_Disabled ==
    /\ (Processed /\ ~ev.enabled) => (Acc = ZeroNet /\ ev.calls = <<>>)
    /\ (Completed /\ ev.enabled /\ ev.after = "off") =>
          \A k \in Accumulators :
             /\ Issued(ev.calls)[k] = Trunc(ev.d[DeltaOf[k]])
             /\ Acc[k] = RSub(ev.d[DeltaOf[k]], RInt(Trunc(ev.d[DeltaOf[k]])))

C7_Witness ==
    /\ Completed
    /\ ev.enabled
    /\ ev.after = "off"
    /\ ev.d.mouse_x = Rat(3, 5)
    /\ ev.calls = <<>>
    /\ acc_x = Rat(3, 5)

\* C15: a failure raised by a callback inside a polling cycle is contained
\* and does not end the polling loop: after a cycle whose axes callback
\* raised, the loop goes on to its next "while" test with is_running still
\* True.
C15_FailureContained ==
    Scanned /\ ev.why = "exception" => running /\ loop_pc = "while"

\* C27: in every state where no polling loop is running and no handler is
\* in progress, the held-key release has been performed: no key is in the
\* held set and no key is left down by a stick binding, however the loop
\* ended (stop() requested, device error, disconnection).
C27_CleanupOnLoopExit ==
    ~Alive(loop_pc) /\ ui_pc = "idle" => held_keys = {} /\ os_down = {}

\* An axis index that is no valid index into the n values of a cycle.
InvalidIndex(stick, n) ==
    \E idx \in {Get(stick, "axis_x", 0), Get(stick, "axis_y", 1)} :
       idx < 0 \/ idx >= n

\* The sticks whose two indices are valid.
ValidSticks(sticks, n) == SelectSeq(sticks, LAMBDA stick : ~InvalidIndex(stick, n))

\* C29: a stick with an axis index that is too large or negative is
\* skipped: the cycle completes without error, and the deltas and the held
\* keys it computes are those of the sticks with valid indices alone.
C29_InvalidIndexSkipped ==
    Processed /\ (\E i \in DOMAIN analog.sticks :
                     InvalidIndex(analog.sticks[i], Len(ev.axis_values))) =>
       /\ ev.completed
       /\ \E r \in {ProcessSticks(ValidSticks(analog.sticks, Len(ev.axis_values)), 1,
                                  ev.axis_values, ev.enabled, NoSticksYet)} :
             ev.d = r.d /\ ev.new_held = r.new_held

\* The accumulators a cycle's deltas are not zero for.
Moved(d) == { t \in ContinuousTypes : d[t] # Zero }

\* The physical axes of the configured sticks that have a continuous
\* binding on one of their two slots.
ContinuousAxes(sticks) ==
    { <<i, neg>> \in (DOMAIN sticks) \X {"left", "up"} :
         LET pos == IF neg = "left" THEN "right" ELSE "down"
         IN  \/ Get(sticks[i][neg], "type", "none") \in ContinuousTypes
             \/ Get(sticks[i][pos], "type", "none") \in ContinuousTypes }

\* scaled * sensitivity / 60
DeltaFor(scaled, sensitivity) ==
    RDiv(RMul(scaled, RInt(sensitivity)), RInt(AxesRate))

\* C30: in a cycle with motion enabled, the accumulators that receive a
\* delta are at most as many as the axes with a continuous binding; with
\* scroll_h on left and mouse_x on right the x axis feeds mouse_x alone, by
\* x * 36 / 60 for deflection to either side, and the y axis feeds nothing;
\* with mouse_y on down and keys elsewhere the y axis feeds mouse_y alone
\* and the x axis no accumulator; a continuous binding on the negative slot
\* is applied when the positive slot has none.
C30_OneRolePerAxis ==
    Completed /\ ev.enabled =>
       /\ Cardinality(Moved(ev.d)) <= Cardinality(ContinuousAxes(analog.sticks))
       /\ analog.sticks[1] = StickBothSlots =>
             /\ ev.d.mouse_x = DeltaFor(ev.axis_values[1], 36)
             /\ Moved(ev.d) \subseteq {"mouse_x"}
       /\ analog.sticks[1] = StickKeyOverMouse =>
             /\ ev.d.mouse_y = DeltaFor(ev.axis_values[2], 30)
             /\ Moved(ev.d) \subseteq {"mouse_y"}
       /\ analog.sticks[1] = StickScroll =>
             /\ Moved(ev.d) \subseteq {"scroll_v", "scroll_h"}
             /\ ev.d.scroll_h = DeltaFor(apply_deadzone(ev.axis_values[1], Rat(1, 2)),
                                         DefaultSensitivity)
             /\ ev.d.scroll_v = DeltaFor(apply_deadzone(ev.axis_values[2], Rat(1, 2)), 30)

\* The stick with scroll_h on left and mouse_x on right is pushed fully to
\* the left and fully down: mouse_x receives -36/60, scroll_h nothing.
C30_Witness ==
    /\ Completed
    /\ ev.enabled
    /\ analog.sticks[1] = StickBothSlots
    /\ ev.axis_values = <<Rat(-1, 1), One>>
    /\ ev.d.mouse_x = Rat(-3, 5)
    /\ ev.d.scroll_h = Zero
    /\ Moved(ev.d) = {"mouse_x"}

\* The raw value of axis i in the cycle is below / above the bound.
Below(i, bound) == RLt(ev.axis_values[i], bound)
Above(i, bound) == RLt(bound, ev.axis_values[i])

\* C31: with or without "enabled", a key bound to a direction is in the
\* cycle's held set exactly when the deadzone-applied value is strictly
\* positive in that direction's sense.  With w on up and s on down and no
\* deadzone: w iff y < 0, s iff y > 0, never both, neither at rest.  With a
\* deadzone of 1/2 a deflection of 1/2 or less holds nothing.  With the
\* same key on left and right the key is held for any x but 0.
C31_KeyThreshold ==
    Completed =>
       /\ analog.sticks[1] = StickKeysAndMouse =>
             /\ "w" \in ev.new_held <=> Below(2, Zero)
             /\ "s" \in ev.new_held <=> Above(2, Zero)
             /\ ev.new_held # {"w", "s"}
             /\ ev.new_held \subseteq {"w", "s"}
       /\ analog.sticks[1] = StickKeyOverMouse =>
             /\ "a" \in ev.new_held <=> Below(1, Zero) \/ Above(2, Rat(1, 2))
             /\ "w" \in ev.new_held <=>
                   Above(1, Zero) \/ Below(2, Zero) \/ Below(1, Rat(-1, 2))
             /\ ev.new_held \subseteq {"a", "w"}
       /\ analog.sticks[2] = StickSameKeyTwice =>
             /\ "a" \in ev.new_held <=> ev.axis_values[2] # Zero
             /\ "s" \in ev.new_held <=> Above(1, Zero)
             /\ ev.new_held \subseteq {"a", "s"}
       /\ analog.sticks[1] = StickBothSlots => ev.new_held = {}

\* Motion disabled, the stick behind the deadzone of 1/2 deflected by
\* exactly 1/2 on both axes: only the stick without deadzone holds a key.
C31_Witness ==
    /\ Completed
    /\ ~ev.enabled
    /\ analog.sticks[1] = StickKeyOverMouse
    /\ ev.axis_values = <<Rat(1, 2), Rat(1, 2)>>
    /\ ev.new_held = {"w"}

\* C28: the held-key set and the accumulators are written by the UI
\* thread (_stop_listener, shutdown) only in states where no polling loop
\* is running.
C28_AnalogStateConfined ==
    ev.op \in {"_stop_listener", "shutdown"} => ~ev.alive

\* C38: with no UI handler in progress and the polling thread not in the
\* middle of a cycle or of its exit, the application's _is_listening equals
\* the listener's is_running.
C38_ListeningAgrees ==
    ui_pc = "idle" /\ loop_pc \in {"none", "while", "dead"} =>
       is_listening = running

\* C34: once shutdown() has returned, every key a stick binding sent
\* keyDown for has been sent keyUp since: no key is down.
C34_NoStuckKeyAfterShutdown ==
    ui_pc = "exited" => os_down = {}

(***************************************************************************)
(* gui/bind_dialog.py: BindDialog._save, and the CRUD handlers of          *)
(* gui/app.py that store its result in cfg["binds"].                       *)
(***************************************************************************)
\* str.strip() on a text: blanks at both ends are dropped.
RECURSIVE lstrip(_)
lstrip(t) == IF t # <<>> /\ Head(t) = " " THEN lstrip(Tail(t)) ELSE t

RECURSIVE rstrip(_)
rstrip(t) ==
    IF t # <<>> /\ t[Len(t)] = " " THEN rstrip(SubSeq(t, 1, Len(t) - 1)) ELSE t

strip(t) == rstrip(lstrip(t))

\* str.isdigit(): not empty, and every character is a digit.
isdigit(t) ==
    /\ t # <<>>
    /\ \A i \in DOMAIN t : \E d \in DOMAIN Digits : Digits[d] = t[i]

\* int(t) for a text of digits: the button index a key denotes.
RECURSIVE int(_)
int(t) ==
    IF t = <<>> THEN 0
    ELSE 10 * int(SubSeq(t, 1, Len(t) - 1))
         + ((CHOOSE d \in DOMAIN Digits : Digits[d] = t[Len(t)]) - 1)

\* str.lower() on the letters the dialog inputs use.
lower(t) == [i \in DOMAIN t |-> IF t[i] = "A" THEN "a" ELSE t[i]]

\* d[k] = v
SetItem(d, k, v) == [x \in DOMAIN d \cup {k} |-> IF x = k THEN v ELSE d[x]]

\* del d[k]
DelItem(d, k) == [x \in DOMAIN d \ {k} |-> d[x]]

\* btn_key = raw_btn
BtnKey(raw_btn) == raw_btn

\* BindDialog._save(): the dialog's result, EmptyDict when it stays None.
\* in is what the user entered: the button text, the type, the key text,
\* the steps, and the answer to the overwrite question.
save(in, existing_keys, edit_key) ==
    LET raw_btn == strip(in.btn)
        btn_key == BtnKey(raw_btn)
        key == lower(strip(in.key))
    IN  IF ~isdigit(raw_btn) THEN EmptyDict
        ELSE IF btn_key \in existing_keys /\ btn_key # edit_key /\ ~in.overwrite
        THEN EmptyDict
        ELSE IF in.type = "keyboard"
        THEN IF key = <<>> THEN EmptyDict
             ELSE [button |-> btn_key, bind |-> [type |-> "keyboard", key |-> key]]
        ELSE IF in.type = "sequence"
        THEN IF in.steps = <<>> THEN EmptyDict
             ELSE [button |-> btn_key,
                   bind |-> [type |-> "sequence", steps |-> in.steps]]
        ELSE EmptyDict

\* Mutant: a thread runs only once the threads started before it are done.
WaitsForEarlier(us, i) == \A j \in 1 .. (i - 1) : us[j].state = "done"

\* The threads left when thread i has ended.
Remove(us, i) == SubSeq(us, 1, i - 1) \o SubSeq(us, i + 1, Len(us))

\* Mutant: a thread runs only while the listener does.
StopsWithListener(us, i) == FALSE

\* Each Action-BTN thread is a daemon thread of its own: nothing in run()
\* waits for another thread.
UnitReady(us, i) == TRUE

(***************************************************************************)
(* SpecBinds: the App with its listener on a device with one button and no *)
(* axes, the binding table edited through the dialogs while the listener   *)
(* polls and the Action-BTN threads run.                                   *)
(***************************************************************************)
DelayThenKey == << [action |-> "delay", ms |-> 100],
                   [action |-> "key", key |-> <<"b">>] >>

KeyboardA == [type |-> "keyboard", key |-> <<"a">>]

\* The tables config.json holds at start-up.
BindTables ==
    { EmptyDict,
      SetItem(EmptyDict, <<"0">>, KeyboardA),
      SetItem(EmptyDict, <<"0">>, [type |-> "sequence", steps |-> DelayThenKey]),
      SetItem(EmptyDict, <<"0">>, [type |-> "mouse_combo", x |-> 500, y |-> 300]),
      SetItem(EmptyDict, <<"0">>, [type |-> "macro"]),
      SetItem(EmptyDict, <<"1">>, KeyboardA) }

\* What the user enters in the dialog.
DialogInputs ==
    { [btn |-> b, type |-> "keyboard", key |-> k, steps |-> <<>>, overwrite |-> o] :
         b \in { <<"0">>, <<"0", "0">>, <<" ", "0">>, <<"x">> },
         k \in { <<"A", " ">>, <<>> }, o \in BOOLEAN }
    \cup
    { [btn |-> <<"0">>, type |-> "sequence", key |-> <<>>, steps |-> st,
       overwrite |-> TRUE] : st \in { <<>>, DelayThenKey } }

\* App._open_add_dialog
OpenAddDialog ==
    /\ ui_pc = "idle"
    /\ \E in \in DialogInputs :
          \E result \in {save(in, DOMAIN binds, <<>>)} :
             /\ binds' = IF Truthy(result)
                         THEN SetItem(binds, result.button, result.bind)
                         ELSE binds
             /\ ev' = [op |-> "_open_add_dialog", result |-> result,
                       before |-> binds]
    /\ UNCHANGED <<analog, dlg, held_keys, accVars, is_listening>>
    /\ UNCHANGED <<devVars, sideVars, ctlVars, ui_pc, btnObs, axesObs, dzVars, seqVars>>

\* App._open_edit_dialog up to and including "del self.cfg["binds"][key]";
\* key is the selected row.
OpenEditDialog ==
    /\ ui_pc = "idle"
    /\ \E key \in DOMAIN binds, in \in DialogInputs :
          /\ Truthy(binds[key])
          /\ \E result \in {save(in, DOMAIN binds, key)} :
                /\ IF Truthy(result)
                   THEN /\ binds' = DelItem(binds, key)
                        /\ dlg' = [key |-> key, bind |-> binds[key],
                                    result |-> result]
                        /\ ui_pc' = "_open_edit_dialog"
                   ELSE UNCHANGED <<binds, dlg, ui_pc>>
                /\ ev' = [op |-> "_open_edit_dialog", key |-> key,
                          result |-> result, before |-> binds]
    /\ UNCHANGED <<analog, held_keys, accVars, is_listening>>
    /\ UNCHANGED <<devVars, sideVars, ctlVars, btnObs, axesObs, dzVars, seqVars>>

\* The next statement of _open_edit_dialog:
\* self.cfg["binds"][dlg.result["button"]] = dlg.result["bind"]
EditAssign ==
    /\ ui_pc = "_open_edit_dialog"
    /\ binds' = SetItem(binds, dlg.result.button, dlg.result.bind)
    /\ dlg' = EmptyDict
    /\ ui_pc' = "idle"
    /\ ev' = [op |-> "edit_assign", key |-> dlg.result.button, before |-> binds]
    /\ UNCHANGED <<analog, held_keys, accVars, is_listening>>
    /\ UNCHANGED <<devVars, sideVars, ctlVars, btnObs, axesObs, dzVars, seqVars>>

\* App._delete_selected, confirmed; the selected row is a key of the table.
DeleteSelected ==
    /\ ui_pc = "idle"
    /\ \E key \in DOMAIN binds :
          /\ binds' = DelItem(binds, key)
          /\ ev' = [op |-> "_delete_selected", key |-> key, before |-> binds]
    /\ UNCHANGED <<analog, dlg, held_keys, accVars, is_listening>>
    /\ UNCHANGED <<devVars, sideVars, ctlVars, ui_pc, btnObs, axesObs, dzVars, seqVars>>

\* The binds sections of the preset files App._apply_preset can load.
PresetTables ==
    { SetItem(EmptyDict, <<"0">>, [type |-> "mouse_combo", x |-> 500, y |-> 300]),
      SetItem(EmptyDict, <<"1">>, KeyboardA) }

\* App._apply_preset(path): self.cfg is replaced by the dict read from the
\* preset file; the presets here carry the analog section in use.
ApplyPreset ==
    /\ ui_pc = "idle"
    /\ \E table \in PresetTables :
          /\ binds' = table
          /\ ev' = [op |-> "_apply_preset", before |-> binds]
    /\ UNCHANGED <<analog, dlg, held_keys, accVars, is_listening>>
    /\ UNCHANGED <<devVars, sideVars, ctlVars, ui_pc, btnObs, axesObs, dzVars, seqVars>>

\* Mutant: the dropdown is refreshed whether or not the listener is on.
RefreshAlways(listening) == TRUE

\* if self._is_listening: return
RefreshReinits(listening) == ~listening

\* ControllerListener.get_button_count(): with an initialised handle it
\* answers from the handle; otherwise it re-initialises the subsystem.
get_button_count(self, total) ==
    IF self.joystick = "init"
    THEN [reinit |-> FALSE, count |-> num_buttons]
    ELSE [reinit |-> TRUE,
          count |-> IF total > self.joystick_index THEN num_buttons ELSE 0]

\* App._refresh_joystick_dropdown
RefreshJoystickDropdown ==
    /\ ui_pc = "idle"
    /\ joystick' = IF RefreshReinits(is_listening) THEN Reinit(joystick)
                    ELSE joystick
    /\ ev' = [op |-> "_refresh_joystick_dropdown",
              reinit |-> RefreshReinits(is_listening),
              alive |-> Alive(loop_pc)]
    /\ UNCHANGED <<running, thread, joystick_index, loop_pc, prev_states>>
    /\ UNCHANGED <<devVars, sideVars, appVars, ui_pc, btnObs, axesObs, dzVars, seqVars>>

\* The Action-BTN thread i takes a step; it is gone once run() returns.
UnitStepOf(i) ==
    /\ units[i].state # "done"
    /\ UnitReady(units, i)
    /\ units' = IF UnitAdvance(units[i]).state = "done"
                 THEN Remove(units, i)
                 ELSE [units EXCEPT ![i] = UnitAdvance(@)]
    /\ ev' = [op |-> "unit", i |-> i]
    /\ UNCHANGED <<hist, last_sample, invocations, rises>>
    /\ UNCHANGED <<devVars, sideVars, ctlVars, appVars, ui_pc, axesObs, dzVars, seqVars>>

UnitStep == \E i \in DOMAIN units : UnitStepOf(i)

InitBinds ==
    /\ Constructed
    /\ dev_count = 1
    /\ num_buttons = 1
    /\ n_axes = 0
    /\ analog = [enabled |-> FALSE, sticks |-> <<DefaultRightStick>>]
    /\ binds \in BindTables
    /\ DzIdle
    /\ SeqIdle

NextBinds ==
    \/ StartListener
    \/ StopListener
    \/ StopListenerJoined
    \/ OpenEditDialog
    \/ EditAssign
    \/ RefreshJoystickDropdown
    \/ Unplug
    \/ UnitStep
    \/ PollThread

SpecBinds == InitBinds /\ [][NextBinds]_vars

\* The App with one button while the table is edited, cut down or replaced
\* by a preset between the cycles of the loop and the steps of the threads.
InitPress ==
    /\ InitBinds
    /\ binds = SetItem(EmptyDict, <<"0">>, [type |-> "sequence", steps |-> DelayThenKey])

NextPress ==
    \/ StartListener
    \/ StopListener
    \/ StopListenerJoined
    \/ OpenEditDialog
    \/ EditAssign
    \/ DeleteSelected
    \/ ApplyPreset
    \/ UnitStep
    \/ PollThread

SpecPress == InitPress /\ [][NextPress]_vars

\* The pressed buttons of the cycle that had a binding in the table the
\* cycle read.
BoundPressed ==
    LET IsBound(b) == str(b) \in DOMAIN ev.table /\ Truthy(ev.table[str(b)])
    IN  SelectSeq(ev.pressed, IsBound)

\* C12: in a polling cycle, the callback for a pressed button b looks up
\* str(b) in the binding table: a button without a binding starts no thread;
\* a bound button starts exactly one thread, which calls execute_keyboard
\* with the bind's key (one press of that key) for a keyboard bind,
\* execute_sequence with the bind's steps for a sequence bind, and
\* execute_mouse_combo with the bind's x and y for a mouse_combo bind; the
\* threads alive afterwards are those alive before and the new ones.
C12_BindingResolution ==
    Scanned =>
       /\ Len(ev.started) = Len(BoundPressed)
       /\ units = ev.units_before \o ev.started
       /\ \A i \in DOMAIN ev.started :
             LET u == ev.started[i]
                 bind == ev.table[str(BoundPressed[i])]
             IN  /\ u.button = BoundPressed[i]
                 /\ u.bind = bind
                 /\ u.pc = 1 /\ u.state = "ready"
                 /\ bind.type = "keyboard" =>
                       /\ u.call.fn = "execute_keyboard"
                       /\ u.call.key = bind.key
                       /\ u.call.steps = << [action |-> "key", key |-> bind.key] >>
                 /\ bind.type = "sequence" =>
                       /\ u.call.fn = "execute_sequence"
                       /\ u.call.steps = bind.steps
                 /\ bind.type = "mouse_combo" =>
                       /\ u.call.fn = "execute_mouse_combo"
                       /\ u.call.x = bind.x /\ u.call.y = bind.y
                 /\ bind.type \notin {"keyboard", "sequence", "mouse_combo"} =>
                       u.call.steps = <<>>

C12_Witness ==
    /\ Scanned
    /\ ev.pressed = <<0>>
    /\ ev.table = SetItem(EmptyDict, <<"0">>, KeyboardA)
    /\ Len(ev.started) = 1
    /\ ev.started[1].call.fn = "execute_keyboard"
    /\ ev.started[1].call.key = <<"a">>
    /\ Len(units) = 2

\* C14: an Action-BTN thread alive (suspended in a delay step or not) never
\* holds back the polling loop or another Action-BTN thread: the loop's next
\* statement can be taken whenever the loop is inside its bounds, every
\* thread alive can take its own next step whatever the others are doing,
\* and a cycle leaves the threads alive as they are, adding the ones it
\* starts after them.
C14_DispatchNeverStalls ==
    /\ [](units # <<>> =>
            /\ loop_pc = "body" => ENABLED LoopBody
            /\ loop_pc = "while" /\ Len(hist) < CycleBound /\ Len(units) < MaxUnits
                  => ENABLED LoopWhile
            /\ loop_pc = "while" /\ ~running => ENABLED LoopWhile
            /\ \A i \in DOMAIN units : ENABLED UnitStepOf(i))
    /\ [][loop_pc = "body" /\ loop_pc' # "body" =>
             /\ Len(units') >= Len(units)
             /\ SubSeq(units', 1, Len(units)) = units]_vars

C14_Witness ==
    /\ Len(units) = 2
    /\ units[1].state = "sleep"
    /\ units[2].call.fn = "execute_sequence"
    /\ units[2].pc = 2
    /\ ev.op = "unit" /\ ev.i = 2
    /\ hist = <<1, 0, 1>>

\* No polling loop is running: stop() was requested, or the loop ended.
LoopStopped == ~running \/ ~Alive(loop_pc)

\* C21: stop() and the end of the polling loop leave the Action-BTN threads
\* as they are: only a thread's own step changes or removes it, a thread
\* is removed only by the step that ends its entry point, every thread can
\* take its next step (leave its delay, execute its next step, return) in
\* every state where the loop is stopping, stopped or dead, and stop()
\* returns as soon as the polling thread has ended, threads alive or not.
C21_UnitsSurviveStop ==
    /\ [](LoopStopped \/ ui_pc = "_stop_listener" =>
             \A i \in DOMAIN units : ENABLED UnitStepOf(i))
    /\ [](ui_pc = "_stop_listener" /\ loop_pc = "dead" => ENABLED StopListenerJoined)
    /\ [](ui_pc = "idle" /\ is_listening => ENABLED StopListener)
    /\ [][ev'.op # "unit" =>
             Len(units') >= Len(units) /\ SubSeq(units', 1, Len(units)) = units]_vars
    /\ [][ev'.op = "unit" /\ ev'.i \in DOMAIN units =>
             LET u == units[ev'.i]
             IN  IF u.pc >= Len(u.call.steps)
                    /\ ~(u.pc = Len(u.call.steps)
                         /\ u.call.steps[u.pc].action = "delay" /\ u.state = "ready")
                 THEN units' = Remove(units, ev'.i)
                 ELSE /\ Len(units') = Len(units)
                      /\ \A j \in DOMAIN units : j # ev'.i => units'[j] = units[j]
                      /\ units'[ev'.i].call = u.call
                      /\ \/ units'[ev'.i].pc = u.pc + 1
                         \/ units'[ev'.i].pc = u.pc /\ u.state = "ready"
                               /\ units'[ev'.i].state = "sleep"]_vars

\* The listener was stopped while a sequence thread was in its delay; the
\* thread has since left the delay and stands before its key step.
C21_Witness ==
    /\ ~is_listening
    /\ ~running
    /\ thread = "None"
    /\ loop_pc = "none"
    /\ ui_pc = "idle"
    /\ ev.op = "unit"
    /\ Len(units) = 1
    /\ units[1].call.fn = "execute_sequence"
    /\ units[1].call.steps = DelayThenKey
    /\ units[1].pc = 2
    /\ units[1].state = "ready"

\* The table entry of a thread's button as it is now, None when deleted.
EntryNow(u) == Get(binds, str(u.button), EmptyDict)

\* C40: the steps an Action-BTN thread executes are those of the binding
\* the table held for its button when the rising edge was processed: the
\* thread is started with that binding, the entry point and steps it runs
\* are the ones of the binding it holds, a change of the table (edit,
\* delete, replacement, preset switch) leaves every thread alive as it is,
\* and a step of a thread keeps its binding and its steps and moves it
\* along them.
C40_CapturedAtPress ==
    /\ [](Scanned =>
             \A j \in DOMAIN ev.started :
                /\ str(ev.started[j].button) \in DOMAIN ev.table
                /\ ev.started[j].bind = ev.table[str(ev.started[j].button)])
    /\ [](\A i \in DOMAIN units : units[i].call = RunCall(units[i].bind))
    /\ [][binds' # binds => units' = units]_vars
    /\ [][ev'.op = "unit" /\ ev'.i \in DOMAIN units /\ Len(units') = Len(units) =>
             /\ units'[ev'.i].bind = units[ev'.i].bind
             /\ units'[ev'.i].call.steps = units[ev'.i].call.steps
             /\ units'[ev'.i].pc \in {units[ev'.i].pc, units[ev'.i].pc + 1}]_vars

\* A sequence thread was started, its button's entry was then replaced or
\* removed, and the thread has since left its delay and stands before the
\* key step of the binding it was started with.
C40_Witness ==
    /\ ev.op = "unit"
    /\ ev.i \in DOMAIN units
    /\ units[ev.i].bind = [type |-> "sequence", steps |-> DelayThenKey]
    /\ units[ev.i].pc = 2
    /\ units[ev.i].call.steps[2].action = "key"
    /\ EntryNow(units[ev.i]) # units[ev.i].bind

\* The last handler run was one that can re-initialise the joystick
\* subsystem.
Reenumerated ==
    /\ ev.op \in {"_start_listener", "_refresh_joystick_dropdown"}
    /\ ev.reinit

\* C17: in the application the joystick subsystem is re-initialised only
\* when no polling loop is alive: a live loop implies that the App is
\* listening and that the handle is initialised; _start_listener runs and
\* _refresh_joystick_dropdown re-enumerates only when not listening, so
\* with no loop alive; get_button_count answers from the initialised handle
\* while a loop is alive; and start() on a running listener returns
\* (True, "") and changes nothing.
C17_NoReenumeration ==
    /\ Alive(loop_pc) => is_listening /\ joystick = "init"
    /\ Reenumerated => ~ev.alive
    /\ Alive(loop_pc) => ~get_button_count(Self, dev_count).reinit
    /\ running =>
          start(Self, dev_count, "ok") = [self |-> Self, ret |-> <<TRUE, "">>,
                                          spawned |-> 0]

C17_Witness ==
    /\ ev.op = "_refresh_joystick_dropdown"
    /\ ev.alive
    /\ ~ev.reinit
    /\ running
    /\ loop_pc = "body"
    /\ joystick = "init"
    /\ hist = <<1>>

\* C19: a press observed by the polling thread while _open_edit_dialog is
\* storing a new binding for the button it edits resolves to the old or to
\* the new binding of that button, never to no binding.
C19_ConsistentSnapshot ==
    Scanned /\ ui_pc = "_open_edit_dialog" /\ dlg.result.button = dlg.key =>
       \A i \in DOMAIN ev.pressed :
          str(ev.pressed[i]) = dlg.key =>
             \E j \in DOMAIN ev.started :
                /\ ev.started[j].button = ev.pressed[i]
                /\ ev.started[j].bind \in {dlg.bind, dlg.result.bind}

(***************************************************************************)
(* SpecCrud: the binding table under the add, edit and delete handlers.    *)
(***************************************************************************)
InitCrud ==
    /\ Constructed
    /\ dev_count = 0
    /\ num_buttons = 0
    /\ n_axes = 0
    /\ analog = [enabled |-> FALSE, sticks |-> <<>>]
    /\ binds \in BindTables
    /\ DzIdle
    /\ SeqIdle

NextCrud ==
    \/ OpenAddDialog
    \/ OpenEditDialog
    \/ EditAssign
    \/ DeleteSelected

SpecCrud == InitCrud /\ [][NextCrud]_vars

\* The keys of a table that denote button index n.
KeysOf(table, n) == { k \in DOMAIN table : isdigit(k) /\ int(k) = n }

\* A handler has stored a dialog result under ev.result.button.
Stored == ev.op = "_open_add_dialog" /\ Truthy(ev.result)

\* C18: after any add, edit or delete the table holds at most one binding
\* per button index (no two keys denote the same integer); an add that saves
\* a binding for an index leaves that binding as the index's only one, and
\* the bindings of all other indices are as they were.
C18_OneBindingPerIndex ==
    /\ \A k1, k2 \in DOMAIN binds :
          isdigit(k1) /\ isdigit(k2) /\ int(k1) = int(k2) => k1 = k2
    /\ Stored =>
          /\ binds[ev.result.button] = ev.result.bind
          /\ KeysOf(binds, int(ev.result.button)) = {ev.result.button}
          /\ \A k \in DOMAIN ev.before :
                int(k) # int(ev.result.button) =>
                   k \in DOMAIN binds /\ binds[k] = ev.before[k]

(***************************************************************************)
(* SpecCalls: the entry points of actions.py called one after the other,   *)
(* each primitive succeeding, raising FailSafeException or raising another *)
(* exception.                                                              *)
(***************************************************************************)
MaxCalls == 2

ComboTargets == { <<500, 300>>, <<10, 10>> }

\* BindDialog._prefill: the steps shown for a mouse_combo bind.
PrefillSteps(bind) ==
    << [action |-> "move_mouse", x |-> Get(bind, "x", 0), y |-> Get(bind, "y", 0),
        save_restore |-> TRUE],
       [action |-> "click_left"] >>

\* The lists execute_sequence is called with.
CallLists ==
    { <<>>,
      << [action |-> "wave"] >>,
      << [action |-> "save_mouse"], [action |-> "move_mouse", x |-> 10, y |-> 10] >>,
      << [action |-> "move_mouse", x |-> 10, y |-> 10, save_restore |-> TRUE],
         [action |-> "scroll_down"], [action |-> "restore_mouse"] >> }
    \cup { PrefillSteps([x |-> t[1], y |-> t[2]]) : t \in ComboTargets }

Calls ==
    { [fn |-> "execute_keyboard", key |-> "enter"] }
    \cup { [fn |-> "execute_mouse_combo", x |-> t[1], y |-> t[2]] : t \in ComboTargets }
    \cup { [fn |-> "execute_sequence", steps |-> l] : l \in CallLists }

\* The steps the for loop of execute_sequence runs over for a call.
EntrySteps(call) ==
    CASE call.fn = "execute_sequence" -> call.steps
      [] call.fn = "execute_mouse_combo" -> MouseComboSteps(call.x, call.y)
      [] OTHER -> <<>>

\* Mutant: a new call finds what the call before it left saved.
KeepSaved(saved) == saved

\* saved_pos = None: the local of a new call.
FreshSaved(saved) == NoPos

\* An entry point is called, the previous call having returned.
Enter ==
    /\ seq_state \in {"idle", "done"}
    /\ Get(ev, "n", 0) < MaxCalls
    /\ \E call \in Calls :
          /\ steps' = EntrySteps(call)
          /\ seq_state' = IF call.fn = "execute_keyboard" THEN "press" ELSE "run"
          /\ ev' = [op |-> "call", call |-> call, n |-> Get(ev, "n", 0) + 1,
                    start |-> cursor, prev_aborted |-> aborted,
                    prev_saved |-> saved_pos]
    /\ seq_pc' = 1
    /\ saved_pos' = FreshSaved(saved_pos)
    /\ ops' = <<>>
    /\ aborted' = FALSE
    /\ UNCHANGED cursor
    /\ UNCHANGED <<dzVars, devVars, sideVars, ctlVars, appVars, ui_pc, btnObs, axesObs>>

\* execute_keyboard(key): pyautogui.press(key) inside its try block.
ExecKeyboard ==
    /\ seq_state = "press"
    /\ \E r \in { Inject(Here, [op |-> "press", key |-> ev.call.key], o) : o \in Outcomes } :
          /\ ops' = r.ops
          /\ aborted' = (r.flow = "abort")
          /\ seq_state' = IF r.flow = "raise" THEN "raised" ELSE "done"
    /\ UNCHANGED <<steps, seq_pc, saved_pos, cursor>>
    /\ UNCHANGED <<dzVars, listenerVars>>

InitCalls ==
    /\ steps = <<>>
    /\ seq_pc = 1
    /\ seq_state = "idle"
    /\ saved_pos = NoPos
    /\ cursor \in StartPositions
    /\ ops = <<>>
    /\ aborted = FALSE
    /\ DzIdle
    /\ ListenerIdle

NextCalls == Enter \/ ExecKeyboard \/ ExecStep \/ Finish

SpecCalls == InitCalls /\ [][NextCalls]_vars

\* The call in progress or just returned.
InCall(fn) == ev.op = "call" /\ ev.call.fn = fn

\* The call has returned and none of its primitives raised.
ReturnedClean == seq_state = "done" /\ Faults(ops) = 0

\* save the position, move to the target, left click, move back.
ComboOps(origin, target) ==
    << [op |-> "position", ret |-> origin, out |-> "ok"],
       [op |-> "moveTo", to |-> target, out |-> "ok"],
       [op |-> "click", button |-> "left", at |-> target, out |-> "ok"],
       [op |-> "moveTo", to |-> origin, out |-> "ok"] >>

\* C13: execute_mouse_combo(x, y) runs the interpreter over exactly the list
\* [move_mouse(x, y, save_restore=true), click_left], the list the dialog
\* shows for a mouse_combo bind; so it issues the same operations as
\* execute_sequence on that list, and when every primitive succeeds both
\* issue: position saved, move to (x, y), left click at (x, y), move back to
\* the saved position, which leaves the cursor where the call found it.
C13_MouseComboEquivalence ==
    /\ InCall("execute_mouse_combo") =>
          /\ steps = << [action |-> "move_mouse", x |-> ev.call.x, y |-> ev.call.y,
                         save_restore |-> TRUE],
                        [action |-> "click_left"] >>
          /\ steps = PrefillSteps([type |-> "mouse_combo", x |-> ev.call.x,
                                   y |-> ev.call.y])
    /\ \A t \in ComboTargets :
          LET reference == << [action |-> "move_mouse", x |-> t[1], y |-> t[2],
                               save_restore |-> TRUE],
                              [action |-> "click_left"] >>
          IN  ev.op = "call" /\ steps = reference /\ ReturnedClean =>
                 /\ ops = ComboOps(ev.start, t)
                 /\ cursor = ev.start

C13_Witness ==
    /\ InCall("execute_mouse_combo")
    /\ ev.call.x = 500 /\ ev.call.y = 300
    /\ ev.start = <<100, 100>>
    /\ ReturnedClean
    /\ ops = ComboOps(<<100, 100>>, <<500, 300>>)
    /\ cursor = <<100, 100>>

\* A call has been entered and has not run a primitive yet.
JustEntered == ev.op = "call" /\ seq_state \in {"run", "press"} /\ seq_pc = 1 /\ ops = <<>>

\* C20: whatever the steps and however each primitive behaves (success,
\* FailSafeException, another exception), no exception leaves
\* execute_keyboard, execute_mouse_combo or execute_sequence, and a call in
\* progress can always take its next step toward its return; every call
\* starts with no saved position and not aborted, whether or not the call
\* before it was aborted by the failsafe, and a call that returns without a
\* failsafe abort has gone through all of its own steps.
C20_NeverRaise ==
    /\ seq_state # "raised"
    /\ seq_state \in {"run", "press"} => ENABLED (ExecKeyboard \/ ExecStep \/ Finish)
    /\ JustEntered => saved_pos = NoPos /\ ~aborted
    /\ ev.op = "call" /\ seq_state = "done" /\ ~aborted =>
          \/ ev.call.fn = "execute_keyboard" /\ Len(ops) = 1
          \/ ev.call.fn # "execute_keyboard" /\ seq_pc = Len(steps) + 1

C20_Witness ==
    /\ ev.op = "call"
    /\ ev.n = 2
    /\ ev.prev_aborted
    /\ ev.prev_saved # NoPos
    /\ ev.call.fn = "execute_sequence"
    /\ Len(steps) = 3
    /\ seq_state = "done"
    /\ seq_pc = 4
    /\ ~aborted
    /\ Faults(ops) = 1

(***************************************************************************)
(* actions.py: executions of execute_sequence on Action-BTN threads.  Each *)
(* lane of units is a thread of control whose calls follow one another;    *)
(* the lanes run concurrently.  saved_pos is a local of the call, the      *)
(* cursor is the one of the OS.                                            *)
(***************************************************************************)
\* Two threads of control are enough for every interleaving of two calls.
Lanes == {1, 2}

MaxRuns == 3

\* The lists the lanes execute.
LaneLists ==
    { <<SaveStep, MovePlain, ClickLeft>>,
      <<MoveSaveRestore>>,
      <<RestoreStep, MovePlain>> }

RECURSIVE Runs(_)
Runs(us) == IF us = <<>> THEN 0 ELSE us[1].n + Runs(Tail(us))

\* The frame of the call in lane i, as the interpreter sees it.
Frame(i) == St(units[i].saved, cursor, units[i].ops, "next")

\* execute_sequence(steps) is called in lane i: on a new thread, or after
\* the call before it in that lane has returned.
LaneEnter(i) ==
    /\ i <= Len(units) + 1
    /\ Runs(units) < MaxRuns
    /\ i <= Len(units) => units[i].state = "done"
    /\ \E l \in LaneLists :
          LET prev == IF i <= Len(units) THEN units[i]
                      ELSE [saved |-> NoPos, n |-> 0, aborted |-> FALSE]
              call == [steps |-> l, pc |-> 1, state |-> "run",
                       saved |-> FreshSaved(prev.saved), ops |-> <<>>,
                       aborted |-> FALSE, n |-> prev.n + 1,
                       prev_saved |-> prev.saved, origin |-> cursor,
                       beside |-> { j \in DOMAIN units : j # i /\ units[j].state = "run" }]
          IN  units' = IF i <= Len(units) THEN [units EXCEPT ![i] = call]
                       ELSE Append(units, call)
    /\ UNCHANGED <<cursor, ev>>
    /\ UNCHANGED <<steps, seq_pc, seq_state, saved_pos, ops, aborted>>
    /\ UNCHANGED <<dzVars, devVars, sideVars, ctlVars, appVars, ui_pc, axesObs>>
    /\ UNCHANGED <<hist, last_sample, invocations, rises>>

\* One iteration of the for loop of the call in lane i.
LaneStep(i) ==
    /\ i <= Len(units)
    /\ units[i].state = "run"
    /\ units[i].pc <= Len(units[i].steps)
    /\ \E r \in StepResults(Frame(i), units[i].steps[units[i].pc]) :
          /\ Faults(r.ops) <= MaxFaults
          /\ r.flow # "raise"
          /\ cursor' = r.cursor
          /\ units' = [units EXCEPT ![i] =
                 [@ EXCEPT !.saved = r.saved, !.ops = r.ops,
                           !.state = IF r.flow = "abort" THEN "done" ELSE "run",
                           !.aborted = (r.flow = "abort"),
                           !.pc = IF r.flow = "abort" THEN @ ELSE @ + 1]]
    /\ UNCHANGED ev
    /\ UNCHANGED <<steps, seq_pc, seq_state, saved_pos, ops, aborted>>
    /\ UNCHANGED <<dzVars, devVars, sideVars, ctlVars, appVars, ui_pc, axesObs>>
    /\ UNCHANGED <<hist, last_sample, invocations, rises>>

\* The loop of the call in lane i is exhausted: auto-restore, then return.
LaneFinish(i) ==
    /\ i <= Len(units)
    /\ units[i].state = "run"
    /\ units[i].pc = Len(units[i].steps) + 1
    /\ \E r \in AutoRestore(Frame(i)) :
          /\ Faults(r.ops) <= MaxFaults
          /\ cursor' = r.cursor
          /\ units' = [units EXCEPT ![i] =
                 [@ EXCEPT !.saved = r.saved, !.ops = r.ops, !.state = "done"]]
    /\ UNCHANGED ev
    /\ UNCHANGED <<steps, seq_pc, seq_state, saved_pos, ops, aborted>>
    /\ UNCHANGED <<dzVars, devVars, sideVars, ctlVars, appVars, ui_pc, axesObs>>
    /\ UNCHANGED <<hist, last_sample, invocations, rises>>

InitLanes ==
    /\ steps = <<>>
    /\ seq_pc = 1
    /\ seq_state = "idle"
    /\ saved_pos = NoPos
    /\ cursor \in StartPositions
    /\ ops = <<>>
    /\ aborted = FALSE
    /\ DzIdle
    /\ ListenerIdle

NextLanes ==
    \E i \in Lanes : LaneEnter(i) \/ LaneStep(i) \/ LaneFinish(i)

SpecLanes == InitLanes /\ [][NextLanes]_vars

\* The positions the steps of a list move to.
TargetsOf(l) ==
    { <<l[j].x, l[j].y>> : j \in { k \in DOMAIN l : l[k].action = "move_mouse" } }

\* The positions the call's own position() calls returned before call k.
ReadBefore(log, k) ==
    { log[j].ret : j \in { m \in PositionCalls(log) : m < k /\ log[m].out = "ok" } }

\* C26: every execution starts with no saved position, whatever the
\* execution before it left saved or discarded; the position an execution
\* holds is one its own position() call returned; every move it makes goes
\* to a target of its own steps or to a position it read itself; and a step
\* of one execution never changes the saved position of another, whether
\* the executions follow one another or interleave on different threads.
C26_SavedPositionPrivate ==
    /\ [](\A i \in DOMAIN units :
            /\ units[i].state = "run" /\ units[i].pc = 1 /\ units[i].ops = <<>>
                  => units[i].saved = NoPos
            /\ units[i].saved # NoPos =>
                  units[i].saved \in ReadBefore(units[i].ops, Len(units[i].ops) + 1)
            /\ \A k \in DOMAIN units[i].ops :
                  units[i].ops[k].op = "moveTo" =>
                     units[i].ops[k].to \in TargetsOf(units[i].steps)
                                            \cup ReadBefore(units[i].ops, k))
    /\ [][\A i, j \in DOMAIN units :
             i # j /\ units'[j] # units[j] => units'[i].saved = units[i].saved]_vars

\* A call aborted by the fail-safe keeps (100,100) saved while a call on
\* another thread, entered while the first was running, saves and restores
\* (10,10); then a further call in the first lane, entered with (100,100)
\* left behind, restores nothing.
C26_Witness ==
    /\ Len(units) = 2
    /\ units[1].steps = <<RestoreStep, MovePlain>>
    /\ units[1].n = 2
    /\ units[1].prev_saved = <<100, 100>>
    /\ units[1].state = "done"
    /\ units[1].ops = << Call_moveTo(<<10, 10>>) >>
    /\ units[2].steps = <<MoveSaveRestore>>
    /\ units[2].beside = {1}
    /\ units[2].state = "done"
    /\ units[2].saved = <<10, 10>>
    /\ cursor = <<10, 10>>

\* Two executions of [move_mouse(500, 300, save_restore)] on two threads,
\* one call each, both returned, no primitive having raised.
TwoCombosDone ==
    /\ Len(units) = 2
    /\ \A i \in {1, 2} :
          /\ units[i].steps = <<MoveSaveRestore>>
          /\ units[i].n = 1
          /\ units[i].state = "done"
          /\ Faults(units[i].ops) = 0

\* C35: when two sequences with move_mouse(save_restore=true) have run on
\* separate threads, however interleaved, and both have returned, the cursor
\* is where it was before the first of them started.
C35_RestoreUnderConcurrency ==
    TwoCombosDone => cursor = units[1].origin

(***************************************************************************)
(* SpecDz: the pure function _apply_deadzone on a grid of inputs.          *)
(***************************************************************************)
DzValues ==
    { Rat(n, 4) : n \in -4..4 } \cup { Rat(3, 20), Rat(-3, 20) }
DzZones ==
    { Zero, Rat(3, 20), Rat(1, 4), Rat(1, 2), Rat(99, 100),
      Rat(9999999, 10000000) }

InitDz ==
    /\ dz_args \in DzValues \X DzValues \X DzZones
    /\ dz_res = <<>>
    /\ SeqIdle
    /\ ListenerIdle

CallDeadzone ==
    /\ dz_res = <<>>
    /\ dz_res' = << apply_deadzone(dz_args[1], dz_args[3]),
                    apply_deadzone(dz_args[2], dz_args[3]) >>
    /\ UNCHANGED dz_args
    /\ UNCHANGED <<seqVars, listenerVars>>

NextDz == CallDeadzone

SpecDz == InitDz /\ [][NextDz]_vars

\* C6 (as amended): the result is 0 exactly when |v| <= dz; beyond the dead
\* zone it has the sign of v, a magnitude in (0, 1] equal to
\* (|v| - dz) / max(1 - dz, 1e-6), and the magnitude is strictly increasing
\* in |v|.
C6_DeadzoneAmended ==
    dz_res # <<>> =>
        LET v == dz_args[1]
            w == dz_args[2]
            dz == dz_args[3]
            r == dz_res[1]
            q == dz_res[2]
        IN  /\ (r = Zero) <=> RLe(RAbs(v), dz)
            /\ RLt(dz, RAbs(v)) =>
                  /\ (r.n > 0) <=> (v.n > 0)
                  /\ RLt(Zero, RAbs(r)) /\ RLe(RAbs(r), One)
                  /\ RMul(RAbs(r), RMax(RSub(One, dz), DeadzoneEps))
                        = RSub(RAbs(v), dz)
            /\ (RLt(dz, RAbs(w)) /\ RLt(RAbs(v), RAbs(w))) =>
                  RLt(RAbs(r), RAbs(q))

\* C6 witness: a value on the edge of a non-empty dead zone gave 0 and a
\* larger one was rescaled.
C6_Witness ==
    /\ dz_res # <<>>
    /\ RLt(Zero, dz_args[3])
    /\ RAbs(dz_args[1]) = dz_args[3]
    /\ dz_res[1] = Zero
    /\ RLt(dz_args[3], RAbs(dz_args[2]))
    /\ dz_res[2] # dz_args[2]

\* C6 as stated: the result is 0 if and only if |v| < dz.
C6_Original ==
    dz_res # <<>> =>
        ((dz_res[1] = Zero) <=> RLt(RAbs(dz_args[1]), dz_args[3]))

====
